---- MODULE Spec2Model ----
(***************************************************************************)
(* Verification model of the AvenLab physics server (physics-server/src).  *)
(*                                                                         *)
(* Real-valued quantities of the Rust code (f32) are kept on fixed-point   *)
(* grids; every product or quotient that leaves the grid is rounded to the *)
(* nearest grid point (RDiv), the way an f32 operation rounds its result.  *)
(*                                                                         *)
(*   force            1 N                                                  *)
(*   impulse          1e-2 N*s                                             *)
(*   velocity         1e-2 m/s                                             *)
(*   length           1e-4 m                                               *)
(*   ratio, mu, input 1e-3   (usage ratios of the tire solver: 1e-4)       *)
(*   dt               1/60 s (main.rs: phys.step(1.0 / 60.0))              *)
(***************************************************************************)
EXTENDS Integers, Sequences, FiniteSets, TLC

VARIABLES
    arb,        \* apply_arb_load_transfer: the two maps, before and after a call
    tire,       \* tire solver: one contact patch, the controls, the solver's results
    vehicle,    \* PhysicsWorld.vehicles[player]: stored controls and rack angle
    body,       \* PhysicsWorld.bodies[vehicle.body]: translation and velocities
    tick,       \* what the step of this loop iteration did (per-wheel records, impulses)
    tstate,     \* update_tire_state: the arguments of the last call and its result
    session,    \* net.rs: each connection task's position and its locals
    lock,       \* main.rs: the holder of the Mutex<PhysicsWorld>
    sim,        \* main.rs: the simulation loop's position in its iteration
    game,       \* state.rs: SharedGameState (entities, spawns, clients, tick)
    glock       \* main.rs: the holder of the Mutex<SharedGameState>

vars == <<arb, tire, vehicle, body, tick, tstate, session, lock, sim, game, glock>>

----------------------------------------------------------------------------
(* Arithmetic on the grids *)

\* Rust evaluates an argument once, before the call: Let(e, LAMBDA x : body) is
\* `let x = e;` followed by body, with e evaluated once
Let(e, F(_)) == [x \in Any |-> F(x)][e]

Abs(a) == Let(a, LAMBDA x : IF x < 0 THEN -x ELSE x)
Sign(a) == Let(a, LAMBDA x : IF x < 0 THEN -1 ELSE IF x > 0 THEN 1 ELSE 0)
Min(a, b) == Let(<<a, b>>, LAMBDA x : IF x[1] < x[2] THEN x[1] ELSE x[2])
Max(a, b) == Let(<<a, b>>, LAMBDA x : IF x[1] > x[2] THEN x[1] ELSE x[2])

\* mutant: a clamp that hands its argument back
Clamp_none(a, lo, hi) == a

\* f32::clamp(lo, hi), lo <= hi
Clamp(a, lo, hi) ==
    Let(<<a, lo, hi>>, LAMBDA x : IF x[1] < x[2] THEN x[2] ELSE IF x[1] > x[3] THEN x[3] ELSE x[1])

\* a / b rounded to the nearest grid point (half away from zero), b > 0
RDiv(a, b) ==
    Let(<<a, b>>, LAMBDA x :
        IF x[1] < 0
        THEN -(((-x[1]) \div x[2]) + (IF 2 * ((-x[1]) % x[2]) >= x[2] THEN 1 ELSE 0))
        ELSE (x[1] \div x[2]) + (IF 2 * (x[1] % x[2]) >= x[2] THEN 1 ELSE 0))

\* a power of two x with x / 2 < sqrt(n) <= x, 0 < n < 2^31
SqrtStart(n) ==
    IF n < 65536
    THEN IF n < 256
         THEN IF n < 16 THEN (IF n < 4 THEN 2 ELSE 4)
                        ELSE (IF n < 64 THEN 8 ELSE 16)
         ELSE IF n < 4096 THEN (IF n < 1024 THEN 32 ELSE 64)
                          ELSE (IF n < 16384 THEN 128 ELSE 256)
    ELSE IF n < 16777216
         THEN IF n < 1048576 THEN (IF n < 262144 THEN 512 ELSE 1024)
                             ELSE (IF n < 4194304 THEN 2048 ELSE 4096)
         ELSE IF n < 268435456 THEN (IF n < 67108864 THEN 8192 ELSE 16384)
                               ELSE (IF n < 1073741824 THEN 32768 ELSE 46341)

\* one Newton step towards sqrt(n)
SqrtStep(n, g) == Let(g, LAMBDA x : (x + n \div x) \div 2)

\* floor of the square root, 0 <= n < 2^31: four Newton steps from SqrtStart
\* land within one of it
FloorSqrt(a) ==
    Let(a, LAMBDA n :
        IF n = 0 THEN 0
        ELSE Let(SqrtStep(n, SqrtStep(n, SqrtStep(n, SqrtStep(n, SqrtStart(n))))),
                 LAMBDA k : IF k * k > n THEN k - 1
                            ELSE IF n - k * k > 2 * k THEN k + 1 ELSE k))

\* f32::sqrt: the square root rounded to the nearest grid point
Sqrt(a) ==
    Let(a, LAMBDA n : Let(FloorSqrt(n), LAMBDA k : IF n - k * k > k THEN k + 1 ELSE k))

Thousand == 10 * 100          \* one, on the 1e-3 grid
TenThousand == 100 * 100      \* one, on the 1e-4 grid; also 1 m in length units
DtInv == 60                   \* 1 / dt

----------------------------------------------------------------------------
(* WheelId *)

WheelIds == {"FL", "FR", "RL", "RR"}
is_front(w) == w \in {"FL", "FR"}

----------------------------------------------------------------------------
(* anti_roll.rs: apply_arb_load_transfer *)

\* f32 argument sets of the pure-function specifications
ArbLevels == 3
NormalLevels == 3

CompValues == {700 * i - 500 : i \in 1..ArbLevels}             \* 2 cm, 9 cm, 16 cm
NormalValues == {0, 300} \cup {2500 * i : i \in 1..NormalLevels}  \* N
StiffnessValues == {0, 12000, 18000}          \* GT86.arb_rear, GT86.arb_front
FzRefValues == {2434, 3311}                    \* body_mass*g/4, config.mass*g/4

\* a HashMap<WheelId, f32> whose keys are among ws
Maps(ws, vals) == UNION {[S -> vals] : S \in SUBSET ws}

\* HashMap::insert
Insert(m, k, v) == [x \in DOMAIN m \cup {k} |-> IF x = k THEN v ELSE m[x]]

\* map.get(&k).copied().unwrap_or(0.0)
GetOr0(m, k) == IF k \in DOMAIN m THEN m[k] ELSE 0

\* mutant: the transfer without the saturation cap of 0.4 * fz_ref
arb_transfer_uncapped(cl, cr, nl, nr, arb_stiffness, fz_ref) ==
    LET delta        == cl - cr
        transfer0    == RDiv(arb_stiffness * delta, TenThousand)
        load_scale   == RDiv((nl + nr) * Thousand, 2 * fz_ref)
    IN  RDiv(transfer0 * Clamp(load_scale, 300, 1200), Thousand)

\* the transfer the bar asks for, after load scaling and the saturation cap
arb_transfer(cl, cr, nl, nr, arb_stiffness, fz_ref) ==
    LET delta        == cl - cr
        transfer0    == RDiv(arb_stiffness * delta, TenThousand)
        load_scale   == RDiv((nl + nr) * Thousand, 2 * fz_ref)
        transfer1    == RDiv(transfer0 * Clamp(load_scale, 300, 1200), Thousand)
        max_transfer == RDiv(4 * fz_ref, 10)
    IN  Clamp(transfer1, -max_transfer, max_transfer)

\* mutant: the right wheel receives nothing of what the left wheel gives up
arb_redistribute_lost(nf, left, right, nl, nr, transfer) ==
    Insert(Insert(nf, left, Max(nl - transfer, 0)), right, Max(nr, 0))

\* the two inserts that write the redistributed normals
arb_redistribute(nf, left, right, nl, nr, transfer) ==
    Insert(Insert(nf, left, Max(nl - transfer, 0)), right, Max(nr + transfer, 0))

\* mutant: a missing compression is read as 0 and there is no dead band
apply_arb_load_transfer_always(left, right, axle_normal_force, axle_compression, arb_stiffness, fz_ref) ==
    LET nl == GetOr0(axle_normal_force, left)
        nr == GetOr0(axle_normal_force, right)
    IN  arb_redistribute(axle_normal_force, left, right, nl, nr,
            arb_transfer(GetOr0(axle_compression, left), GetOr0(axle_compression, right),
                         nl, nr, arb_stiffness, fz_ref))

\* the new axle_normal_force map
apply_arb_load_transfer(left, right, axle_normal_force, axle_compression, arb_stiffness, fz_ref) ==
    IF ~(left \in DOMAIN axle_compression /\ right \in DOMAIN axle_compression)
    THEN axle_normal_force
    ELSE LET cl == axle_compression[left]
             cr == axle_compression[right]
         IN  IF Abs(cl - cr) < 1
             THEN axle_normal_force
             ELSE LET nl == GetOr0(axle_normal_force, left)
                      nr == GetOr0(axle_normal_force, right)
                  IN  arb_redistribute(axle_normal_force, left, right, nl, nr,
                          arb_transfer(cl, cr, nl, nr, arb_stiffness, fz_ref))

ArbIdle == [pc |-> "idle", left |-> "FL", right |-> "FR",
            axle_compression |-> <<>>, before |-> <<>>, axle_normal_force |-> <<>>,
            arb_stiffness |-> 0, fz_ref |-> 3311]

ArbInit ==
    \E ax \in {<<"FL", "FR">>, <<"RL", "RR">>} :
    \E comp \in Maps({ax[1], ax[2]}, CompValues) :
    \E nf \in Maps({ax[1], ax[2]}, NormalValues) :
    \E k \in StiffnessValues, fz \in FzRefValues :
        arb = [pc |-> "ready", left |-> ax[1], right |-> ax[2],
               axle_compression |-> comp, before |-> nf, axle_normal_force |-> nf,
               arb_stiffness |-> k, fz_ref |-> fz]

\* one call of apply_arb_load_transfer on the axle drawn by ArbInit
ArbCall ==
    /\ arb.pc = "ready"
    /\ arb' = [arb EXCEPT
                 !.pc = "done",
                 !.axle_normal_force =
                     apply_arb_load_transfer(arb.left, arb.right, arb.axle_normal_force,
                         arb.axle_compression, arb.arb_stiffness, arb.fz_ref)]
    /\ UNCHANGED <<tire, vehicle, body, tick, tstate, session, lock, sim, game, glock>>

----------------------------------------------------------------------------
(* aven_tire/types.rs: Vec3 helpers.  A Vec3 is <<x, y, z>>. *)

Zero3 == <<0, 0, 0>>
v_add(a, b) ==
    Let(<<a, b>>, LAMBDA x : <<x[1][1] + x[2][1], x[1][2] + x[2][2], x[1][3] + x[2][3]>>)
v_dot(a, b) ==
    Let(<<a, b>>, LAMBDA x : x[1][1] * x[2][1] + x[1][2] * x[2][2] + x[1][3] * x[2][3])
v_mag(v) == Let(v, LAMBDA x : Sqrt(x[1] * x[1] + x[2] * x[2] + x[3] * x[3]))

\* v * s for a scalar s on the grid whose one is `one`
v_scale(v, s, one) ==
    Let(<<v, s>>, LAMBDA x :
        <<RDiv(x[1][1] * x[2], one), RDiv(x[1][2] * x[2], one), RDiv(x[1][3] * x[2], one)>>)

\* the ratio a / b on the 1e-4 grid
Ratio(a, b) == RDiv(a * TenThousand, b)

----------------------------------------------------------------------------
(* physics.rs: the GT86 preset and the SolveContext built from it *)

Mass == 1350                   \* GT86.mass, register_car vehicle_mass (kg)
EngineForce == 3200            \* GT86.engine_force (N)
BrakeForce == 8000             \* GT86.brake_force (N)
MuBase == 900                  \* GT86.mu_base
AbsNxLimit == 900              \* GT86.abs_nx_limit
TcsNxLimit == 850              \* GT86.tcs_nx_limit
DrivenWheels == 2              \* SolveContext.driven_wheels

\* body.mass(): the collider's density (mass / 8 m^3) times the volume of the
\* cuboid(1.0, 0.35, 2.1), 5.88 m^3
BodyMass == (Mass * 588) \div 800

\* fz_ref = body_mass * 9.81 / wheels_count
FzRef == RDiv(BodyMass * 981, 400)

SolveContext(abs_enabled, tcs_enabled) ==
    [mass |-> BodyMass, engine_force |-> EngineForce, brake_force |-> BrakeForce,
     abs_enabled |-> abs_enabled, tcs_enabled |-> tcs_enabled,
     abs_limit |-> AbsNxLimit, tcs_limit |-> TcsNxLimit,
     driven_wheels |-> DrivenWheels, mu_base |-> MuBase]

----------------------------------------------------------------------------
(* aven_tire/kinematics.rs, suspension_contact.rs: the contact patch *)

\* (v_long, v_lat) of a point velocity in the wheel basis
slip_components(point_vel, wheel_forward, wheel_side) ==
    <<-RDiv(v_dot(point_vel, wheel_forward), Thousand),
       RDiv(v_dot(point_vel, wheel_side), Thousand)>>

\* planar_wheel_basis with ground normal +Y: side = n x forward
planar_side(forward) == <<forward[3], 0, -forward[1]>>

\* the patch the tire solver is given for a contact of build_suspension_contact;
\* vel_world is the velocity of the contact point
ContactPatch(wheel, grounded, forward, point_vel, normal_force, mu_lat, roll_factor, drive) ==
    LET side == planar_side(forward)
        slip == slip_components(point_vel, forward, side)
    IN  [wheel |-> wheel, grounded |-> grounded,
         forward |-> forward, side |-> side,
         v_long |-> slip[1], v_lat |-> slip[2], vel_world |-> point_vel,
         normal_force |-> normal_force, mu_lat |-> mu_lat, mu_long |-> MuBase,
         roll_factor |-> roll_factor, drive |-> drive]

----------------------------------------------------------------------------
(* aven_tire/longitudinal.rs: solve_longitudinal *)

\* mu * Fz * dt as an impulse
FrictionImpulse(mu, normal_force) == RDiv(mu * normal_force, 10 * DtInv)

\* J_cap = (mu_long * Fz * dt).max(1e-6): the floor keeps the divisor positive
long_j_cap(patch) == Max(FrictionImpulse(patch.mu_long, patch.normal_force), 1)

\* j_brake_act = (brake_force * brake_share * dt).max(0.0)
long_j_brake_act(ctx, brake_share) ==
    Max(RDiv(RDiv(ctx.brake_force * brake_share, Thousand) * 100, DtInv), 0)

\* (-mass * v_long) clamped by the actuator and then by the friction capacity
long_stop_clamped(ctx, patch, brake_share, scale) ==
    LET j_cap == long_j_cap(patch)
        j_act == long_j_brake_act(ctx, brake_share)
        j     == RDiv((-ctx.mass * patch.v_long) * scale, Thousand)
    IN  Clamp(Clamp(j, -j_act, j_act), -j_cap, j_cap)

\* the engine impulse before traction control
long_engine_raw(ctx, ctrl, patch) ==
    LET j_cap == long_j_cap(patch)
        per_wheel == RDiv(ctx.mass * 981, 100 * Max(ctx.driven_wheels, 1))
        load_frac == Clamp(RDiv(patch.normal_force * Thousand, per_wheel), 500, 1600)
        engine_force ==
            IF patch.drive
            THEN RDiv(RDiv((ctx.engine_force \div Max(ctx.driven_wheels, 1))
                              * ctrl.throttle, Thousand) * load_frac, Thousand)
            ELSE 0
        engine_j == Clamp(RDiv(engine_force * 100, DtInv), -j_cap, j_cap)
    IN  v_scale(patch.forward, engine_j, Thousand)

\* the scalar brake impulse along forward
long_brake_j(ctx, ctrl, patch, brake_share) ==
    LET clamped == long_stop_clamped(ctx, patch, brake_share, ctrl.brake)
        safe    == IF clamped * patch.v_long > 0 THEN 0 ELSE clamped
    IN  IF Abs(patch.v_long) < 5
        THEN IF ctrl.brake > 100
             THEN long_stop_clamped(ctx, patch, brake_share, Thousand)
             ELSE 0
        ELSE safe

\* the direction block: |brake_j| opposite to the planar velocity when
\* speed > 1e-3, else zero.  v has `unit` grid steps per m/s
brake_direction(v, brake_j, unit) ==
    LET v_planar == <<v[1], 0, v[3]>>
        speed    == v_mag(v_planar)
    IN  IF speed * Thousand > unit
        THEN LET brake_dir == <<RDiv(-v_planar[1] * Thousand, speed), 0,
                                RDiv(-v_planar[3] * Thousand, speed)>>
             IN  v_scale(brake_dir, Abs(brake_j), Thousand)
        ELSE Zero3

\* the brake impulse before ABS: opposite to the planar velocity of the contact
long_brake_raw(ctx, ctrl, patch, brake_share) ==
    brake_direction(patch.vel_world, long_brake_j(ctx, ctrl, patch, brake_share), 100)

\* an impulse scaled down to the usage `limit` when its usage exceeds it
LimitUsage(impulse, j_cap, limit) ==
    LET nx == Ratio(v_mag(impulse), j_cap)
        s  == Clamp(Ratio(limit * 10, nx), 0, TenThousand)
    IN  v_scale(impulse, s, TenThousand)

\* mutant: traction control never engages
tcs_apply_off(ctx, ctrl, patch, engine_impulse) == engine_impulse

\* traction control
tcs_apply(ctx, ctrl, patch, engine_impulse) ==
    LET j_cap == long_j_cap(patch)
    IN  IF /\ ctx.tcs_enabled
           /\ ctrl.throttle > 10
           /\ Ratio(v_mag(engine_impulse), j_cap) > ctx.tcs_limit * 10
        THEN LimitUsage(engine_impulse, j_cap, ctx.tcs_limit)
        ELSE engine_impulse

\* ABS
abs_apply(ctx, ctrl, patch, brake_impulse) ==
    LET j_cap == long_j_cap(patch)
    IN  IF /\ ctx.abs_enabled
           /\ ctrl.brake > 10
           /\ Abs(patch.v_long) > 100
           /\ Ratio(v_mag(brake_impulse), j_cap) > ctx.abs_limit * 10
        THEN LimitUsage(brake_impulse, j_cap, ctx.abs_limit)
        ELSE brake_impulse

\* the engine and the brake part of the result, and the result itself
long_engine_impulse(ctx, ctrl, patch) ==
    IF ~patch.grounded THEN Zero3
    ELSE tcs_apply(ctx, ctrl, patch, long_engine_raw(ctx, ctrl, patch))

long_brake_impulse(ctx, ctrl, patch, brake_share) ==
    IF ~patch.grounded THEN Zero3
    ELSE abs_apply(ctx, ctrl, patch, long_brake_raw(ctx, ctrl, patch, brake_share))

solve_longitudinal(ctx, ctrl, patch, brake_share) ==
    IF ~patch.grounded THEN [impulse |-> Zero3, nx |-> 0]
    ELSE LET impulse == v_add(long_engine_impulse(ctx, ctrl, patch),
                              long_brake_impulse(ctx, ctrl, patch, brake_share))
         IN  [impulse |-> impulse, nx |-> Ratio(v_mag(impulse), long_j_cap(patch))]

----------------------------------------------------------------------------
(* aven_tire/brush_lite.rs: solve_brush_lite *)

\* atan(t) in mrad for 0 <= t <= 1 (t on the 1e-3 grid)
AtanUnit(t) == RDiv(t * (785 + RDiv(273 * (Thousand - t), Thousand)), Thousand)

\* y.atan2(x) in mrad, x > 0
atan2(y, x) ==
    IF Abs(y) <= x
    THEN Sign(y) * AtanUnit(RDiv(Abs(y) * Thousand, x))
    ELSE Sign(y) * (1571 - AtanUnit(RDiv(x * Thousand, Abs(y))))

BrushDeadzone == 0             \* BrushLiteConfig::default().v_lat_deadzone

solve_brush_lite(ctx, ctrl, patch) ==
    IF ~patch.grounded THEN Zero3
    ELSE IF Abs(patch.v_lat) < BrushDeadzone THEN Zero3
    ELSE LET v_long  == Max(Abs(patch.v_long), 50)
             alpha   == atan2(patch.v_lat, v_long)
             c_alpha == 10 * ctx.mass
             raw     == RDiv(-c_alpha * alpha, 10 * DtInv)
             max_lat == FrictionImpulse(patch.mu_lat, patch.normal_force)
         IN  v_scale(patch.side, Clamp(raw, -max_lat, max_lat), Thousand)

----------------------------------------------------------------------------
(* aven_tire/solve.rs: solve_step *)

BrakeShare == 500              \* let brake_share = 0.5
MinTireLoad == 50              \* c.normal_force < 50.0: the contact is skipped

\* Option<Vec3>: None, or the named point of a wheel's contact
NoPoint == [some |-> FALSE, kind |-> "com", wheel |-> "-"]
SomePoint(kind, wheel) == [some |-> TRUE, kind |-> kind, wheel |-> wheel]

\* mutant: the ellipse scale is applied to the lateral channel only
ellipse_split_lat_only(long, lat, scale, roll_factor) ==
    [long_i |-> long,
     lat_i  |-> v_scale(lat, RDiv(scale * roll_factor, Thousand), TenThousand)]

\* long_i and lat_i: both channels scaled by the ellipse scale
ellipse_split(long, lat, scale, roll_factor) ==
    [long_i |-> v_scale(long, scale, TenThousand),
     lat_i  |-> v_scale(lat, RDiv(scale * roll_factor, Thousand), TenThousand)]

\* the body of the per-wheel loop for one solved contact
solve_wheel(ctx, ctrl, c) ==
    Let(solve_longitudinal(ctx, ctrl, c, BrakeShare), LAMBDA long :
    Let(solve_brush_lite(ctx, ctrl, c), LAMBDA lat :
    Let(Max(FrictionImpulse(c.mu_long, c.normal_force), 1), LAMBDA max_long :
    Let(Max(FrictionImpulse(c.mu_lat, c.normal_force), 1), LAMBDA max_lat :
    Let(Ratio(v_mag(long.impulse), max_long), LAMBDA nx :
    Let(Ratio(v_mag(lat), max_lat), LAMBDA ny :
    Let(nx * nx + ny * ny, LAMBDA ellipse :
    Let(IF ellipse > TenThousand * TenThousand
        THEN Ratio(TenThousand, Sqrt(ellipse))
        ELSE TenThousand, LAMBDA scale :
    Let(ellipse_split(long.impulse, lat, scale, c.roll_factor), LAMBDA parts :
        [wheel |-> c.wheel, max_long |-> max_long, max_lat |-> max_lat,
         nx |-> nx, ny |-> ny, scale |-> scale,
         long_i |-> parts.long_i, lat_i |-> parts.lat_i,
         impulse |-> [impulse  |-> v_add(parts.long_i, parts.lat_i),
                      at_point |-> SomePoint("apply_point", c.wheel)]])))))))))

\* the contacts the loop does not skip
Solved(contacts) == SelectSeq(contacts, LAMBDA c : c.grounded /\ c.normal_force >= MinTireLoad)

\* per solved contact, what the loop computed
solve_wheels(ctx, ctrl, contacts) ==
    LET cs == Solved(contacts)
    IN  [i \in 1..Len(cs) |-> solve_wheel(ctx, ctrl, cs[i])]

\* TireForces.impulses
solve_step(ctx, ctrl, contacts) ==
    LET ws == solve_wheels(ctx, ctrl, contacts)
    IN  [i \in 1..Len(ws) |-> ws[i].impulse]

----------------------------------------------------------------------------
(* The tire solver on one contact patch: arguments drawn from bounded sets *)

VelScales == 2
LoadLevels == 2

\* wheel forward directions in the ground plane (unit vectors, 1e-3 grid)
Forwards == {<<0, 0, 1000>>, <<600, 0, 800>>, <<-800, 0, 600>>}

\* contact point velocities (1e-2 m/s): at rest, creeping, slow, fast; along,
\* against and across the wheel's heading
BaseVelocities ==
    {<<0, 0, 0>>, <<0, 0, 3>>, <<0, 0, -60>>, <<60, 0, 0>>, <<90, 0, 120>>,
     <<-120, 0, -90>>, <<0, 0, 600>>, <<0, 0, -600>>, <<-600, 0, 0>>}
PointVelocities ==
    {<<v[1] * i, 0, v[3] * i>> : v \in BaseVelocities, i \in 1..VelScales}

TireLoads == {49, 50, 800} \cup {FzRef * i : i \in 1..LoadLevels}
Throttles == {-1000, 0, 10, 1000}
Brakes == {0, 100, 500, 1000}
MuLats == {540, 990}           \* mu0 * 0.6, mu0 * 1.1
RollFactors == {105, 300}      \* 0.30 * (1 - |steer| * 0.65), steer = 1, 0

TireIdle == [pc |-> "idle"]

TireInit ==
    \E f \in Forwards, pv \in PointVelocities, fz \in TireLoads :
    \E th \in Throttles, br \in Brakes, mu \in MuLats, rf \in RollFactors :
    \E w \in {"FL", "RR"}, grounded \in BOOLEAN, assists \in BOOLEAN :
        tire = [pc |-> "ready",
                ctx |-> SolveContext(assists, assists),
                ctrl |-> [throttle |-> th, brake |-> br],
                contacts |-> <<ContactPatch(w, grounded, f, pv, fz, mu, rf, ~is_front(w))>>,
                wheels |-> <<>>, impulses |-> <<>>]

\* one call of solve_step on the contact drawn by TireInit
TireSolve ==
    /\ tire.pc = "ready"
    /\ tire' = [tire EXCEPT
                  !.pc = "done",
                  !.wheels = solve_wheels(tire.ctx, tire.ctrl, tire.contacts),
                  !.impulses = solve_step(tire.ctx, tire.ctrl, tire.contacts)]
    /\ UNCHANGED <<arb, vehicle, body, tick, tstate, session, lock, sim, game, glock>>

----------------------------------------------------------------------------
(* aven_tire/state.rs: TireState and update_tire_state.  nx, ny on the 1e-4
   grid, brake on the 1e-3 grid, speed in 1e-2 m/s *)

TireStates == {"Grip", "Slide", "Lock"}

\* brake > 0.85 && speed > 1.0 && nx > 0.9
tire_lock_entry(nx, brake, speed) == brake > 850 /\ speed > 100 /\ nx > 9000

\* mutant: the usage test on each axis alone, a box in place of the circle
tire_slide_entry_box(nx, ny) == nx > TenThousand \/ ny > TenThousand

\* nx * nx + ny * ny > 1.0
tire_slide_entry(nx, ny) == nx * nx + ny * ny > TenThousand * TenThousand

\* mutant: a sliding tire recovers as soon as one axis is back under 0.7
tire_recover_either(prev, nx, ny, brake, speed) ==
    CASE prev = "Lock"  -> IF brake < 300 \/ speed < 50 THEN "Grip" ELSE "Lock"
      [] prev = "Slide" -> IF nx < 7000 \/ ny < 7000 THEN "Grip" ELSE "Slide"
      [] prev = "Grip"  -> "Grip"

\* match prev { Lock => ..., Slide => ..., Grip => Grip }
tire_recover(prev, nx, ny, brake, speed) ==
    CASE prev = "Lock"  -> IF brake < 300 \/ speed < 50 THEN "Grip" ELSE "Lock"
      [] prev = "Slide" -> IF nx < 7000 /\ ny < 7000 THEN "Grip" ELSE "Slide"
      [] prev = "Grip"  -> "Grip"

\* mutant: the saturation test comes first
update_tire_state_slide_first(prev, nx, ny, brake, speed) ==
    IF tire_slide_entry(nx, ny) THEN "Slide"
    ELSE IF tire_lock_entry(nx, brake, speed) THEN "Lock"
    ELSE tire_recover(prev, nx, ny, brake, speed)

update_tire_state(prev, nx, ny, brake, speed) ==
    IF tire_lock_entry(nx, brake, speed) THEN "Lock"
    ELSE IF tire_slide_entry(nx, ny) THEN "Slide"
    ELSE tire_recover(prev, nx, ny, brake, speed)

\* arguments on both sides of every threshold of the function
UsageRatios == {0, 6999, 7000, 9000, 9001, TenThousand, 12000}
StateBrakes == {0, 299, 300, 850, 851, Thousand}
StateSpeeds == {0, 49, 50, 100, 101, 500}

TStateInit ==
    \E st \in TireStates :
        tstate = [pc |-> "ready", prev |-> st, nx |-> 0, ny |-> 0, brake |-> 0,
                  speed |-> 0, state |-> st]

\* one call of update_tire_state on the previous state drawn by TStateInit
UpdateTireState ==
    \E nx \in UsageRatios, ny \in UsageRatios, brake \in StateBrakes, speed \in StateSpeeds :
        /\ tstate.pc = "ready"
        /\ tstate' = [pc |-> "called", prev |-> tstate.state, nx |-> nx, ny |-> ny,
                      brake |-> brake, speed |-> speed,
                      state |-> update_tire_state(tstate.state, nx, ny, brake, speed)]
        /\ UNCHANGED <<arb, tire, vehicle, body, tick, session, lock, sim, game, glock>>

----------------------------------------------------------------------------
(* Specifications of the pure functions *)

VehicleIdle == [pc |-> "idle"]
BodyIdle == [pc |-> "idle"]
TickIdle == [pc |-> "idle"]
TStateIdle == [pc |-> "idle"]

\* no server runs around a pure function: no connection, no lock holder, no loop
GameIdle == [pc |-> "idle"]
ServerIdle ==
    /\ session = <<>> /\ lock = "idle" /\ sim = [pc |-> "idle"]
    /\ game = GameIdle /\ glock = "idle"
WorldIdle == vehicle = VehicleIdle /\ body = BodyIdle /\ tick = TickIdle /\ ServerIdle

InitArb == ArbInit /\ tire = TireIdle /\ tstate = TStateIdle /\ WorldIdle
SpecArb == InitArb /\ [][ArbCall]_vars

InitTire == TireInit /\ arb = ArbIdle /\ tstate = TStateIdle /\ WorldIdle
SpecTire == InitTire /\ [][TireSolve]_vars

InitState == TStateInit /\ arb = ArbIdle /\ tire = TireIdle /\ WorldIdle
SpecState == InitState /\ [][UpdateTireState]_vars

----------------------------------------------------------------------------
(* Properties of update_tire_state (SpecState) *)

\* the arguments of the last call satisfy the lock entry condition
LockCondition == tstate.brake > 850 /\ tstate.speed > 100 /\ tstate.nx > 9000

\* the arguments of the last call are outside the unit friction circle
Saturated == tstate.nx * tstate.nx + tstate.ny * tstate.ny > TenThousand * TenThousand

\* C11: update_tire_state returns Lock from every previous state whenever
\* brake > 0.85, speed > 1.0 and n_x > 0.9, also when n_x^2 + n_y^2 > 1.
C11_LockTakesPrecedence ==
    (tstate.pc = "called" /\ LockCondition) => tstate.state = "Lock"

\* a call from Slide with hard braking at speed and both usages saturated
C11_Witness ==
    /\ tstate.pc = "called" /\ LockCondition /\ Saturated
    /\ tstate.prev = "Slide" /\ tstate.state = "Lock"

\* C12: update_tire_state returns Slide from every previous state whenever the
\* lock condition does not hold and n_x^2 + n_y^2 > 1.
C12_SlideOnSaturation ==
    (tstate.pc = "called" /\ ~LockCondition /\ Saturated) => tstate.state = "Slide"

\* a call from Lock, brake released, n_x = n_y = 0.9: no axis alone exceeds 1
C12_Witness ==
    /\ tstate.pc = "called" /\ ~LockCondition /\ Saturated
    /\ tstate.prev = "Lock" /\ tstate.brake < 300
    /\ tstate.nx = 9000 /\ tstate.ny = 9000 /\ tstate.state = "Slide"

\* C13: when neither entry condition holds the result is the recovery of the
\* previous state: Lock becomes Grip iff brake < 0.3 or speed < 0.5 and stays
\* Lock otherwise, Slide becomes Grip iff n_x < 0.7 and n_y < 0.7 and stays
\* Slide otherwise, Grip stays Grip; Lock never becomes Slide, Slide never Lock.
C13_Recovery ==
    (tstate.pc = "called" /\ ~LockCondition /\ ~Saturated) =>
        /\ tstate.prev = "Lock" =>
              tstate.state = (IF tstate.brake < 300 \/ tstate.speed < 50
                              THEN "Grip" ELSE "Lock")
        /\ tstate.prev = "Slide" =>
              tstate.state = (IF tstate.nx < 7000 /\ tstate.ny < 7000
                              THEN "Grip" ELSE "Slide")
        /\ tstate.prev = "Grip" => tstate.state = "Grip"

\* a sliding tire with n_x back under 0.7 and n_y at 0.7 keeps sliding
C13_Witness ==
    /\ tstate.pc = "called" /\ ~LockCondition /\ ~Saturated
    /\ tstate.prev = "Slide" /\ tstate.nx = 6999 /\ tstate.ny = 7000
    /\ tstate.state = "Slide"

----------------------------------------------------------------------------
(* Properties of the tire solver (SpecTire) *)

\* the contact of the call, and the parts of what solve_longitudinal returned
TirePatch == tire.contacts[1]
TireEngine == long_engine_impulse(tire.ctx, tire.ctrl, TirePatch)
TireBrake == long_brake_impulse(tire.ctx, tire.ctrl, TirePatch, BrakeShare)
TireSpeed == v_mag(<<TirePatch.vel_world[1], 0, TirePatch.vel_world[3]>>)

\* (|J_long| / J_x_cap)^2 + (|J_lat| / J_y_cap)^2 of an emitted impulse, 1e-8 grid
EllipseUsage(w) ==
    LET ux == Ratio(v_mag(w.long_i), w.max_long)
        uy == Ratio(v_mag(w.lat_i), w.max_lat)
    IN  ux * ux + uy * uy

\* C1: for every contact solve_step processes, the longitudinal and the lateral
\* part of the emitted impulse satisfy (|J_long|/J_x_cap)^2 + (|J_lat|/J_y_cap)^2
\* <= 1 + 1e-5, and each channel's usage is at most 1.
C1_EllipseBudget ==
    tire.pc = "done" =>
        \A i \in 1..Len(tire.wheels) :
            LET w == tire.wheels[i]
            IN  /\ EllipseUsage(w) <= TenThousand * TenThousand + Thousand
                /\ Ratio(v_mag(w.long_i), w.max_long) <= TenThousand
                /\ Ratio(v_mag(w.lat_i), w.max_lat) <= TenThousand
                /\ tire.impulses[i].impulse = v_add(w.long_i, w.lat_i)

\* a processed contact whose raw usage was outside the ellipse, both channels in use
C1_Witness ==
    /\ tire.pc = "done"
    /\ \E i \in 1..Len(tire.wheels) :
          /\ tire.wheels[i].nx * tire.wheels[i].nx
               + tire.wheels[i].ny * tire.wheels[i].ny > TenThousand * TenThousand
          /\ tire.wheels[i].scale < TenThousand
          /\ tire.wheels[i].long_i # Zero3
          /\ tire.wheels[i].lat_i # Zero3

\* C2: for a grounded patch with |v_long| > 0.05 (v_long from slip_components),
\* the brake impulse of solve_longitudinal projected on the patch's forward vector
\* is zero or has the opposite sign to v_long.
C2_BrakeOpposesVLong ==
    (tire.pc = "done" /\ TirePatch.grounded /\ Abs(TirePatch.v_long) > 5) =>
        v_dot(TireBrake, TirePatch.forward) * Sign(TirePatch.v_long) <= 0

\* C3: with ABS enabled, brake > 0.01 and the contact moving faster than 1 m/s,
\* the brake impulse of solve_longitudinal has magnitude / J_cap <= abs_limit
\* + 1e-3 (and one step of the impulse grid), whatever the wheel's heading.
C3_AbsLimitsBrake ==
    (/\ tire.pc = "done" /\ TirePatch.grounded /\ tire.ctx.abs_enabled
     /\ tire.ctrl.brake > 10 /\ TireSpeed > 100) =>
        v_mag(TireBrake) * Thousand
            <= (tire.ctx.abs_limit + 1) * long_j_cap(TirePatch) + Thousand

\* C4: with TCS enabled and throttle > 0.01 the engine part of the impulse has
\* magnitude / J_cap <= tcs_limit (to one step of the impulse grid) on a grounded
\* drive wheel; a wheel that is not driven has no engine impulse.
C4_TcsLimitsEngine ==
    tire.pc = "done" =>
        /\ (TirePatch.grounded /\ TirePatch.drive /\ tire.ctx.tcs_enabled
              /\ tire.ctrl.throttle > 10) =>
               v_mag(TireEngine) * Thousand
                   <= tire.ctx.tcs_limit * long_j_cap(TirePatch) + Thousand
        /\ ~TirePatch.drive => TireEngine = Zero3

\* a drive wheel whose raw engine usage was above the limit and has been scaled
C4_Witness ==
    /\ tire.pc = "done" /\ TirePatch.grounded /\ TirePatch.drive
    /\ tire.ctx.tcs_enabled /\ tire.ctrl.throttle > 10
    /\ Ratio(v_mag(long_engine_raw(tire.ctx, tire.ctrl, TirePatch)),
             long_j_cap(TirePatch)) > tire.ctx.tcs_limit * 10
    /\ TireEngine # Zero3
    /\ TireEngine # long_engine_raw(tire.ctx, tire.ctrl, TirePatch)

\* the TireState of a solved wheel in the first tick of its life, in which the
\* previous state is the initial one
FirstTickState(w) == update_tire_state("Grip", w.nx, w.ny, tire.ctrl.brake, TireSpeed)

\* C14: every wheel starts in Grip and for each solved wheel the new TireState is
\* computed from (previous state, n_x, n_y, brake, planar speed) before the
\* wheel's tire impulses are emitted and modulates them: a wheel that enters
\* Lock in its first tick, where the lateral modulation is 0, emits no lateral
\* impulse.
C14_TireStateModulates ==
    tire.pc = "done" =>
        \A i \in 1..Len(tire.wheels) :
            FirstTickState(tire.wheels[i]) = "Lock" => tire.wheels[i].lat_i = Zero3

\* C20: for each solved wheel solve_step emits the longitudinal impulse with no
\* application point and the lateral impulse at the contact application point;
\* no impulse with an application point carries a longitudinal part.
C20_LongitudinalAtCom ==
    tire.pc = "done" =>
        \A i \in 1..Len(tire.wheels) :
            LET w == tire.wheels[i]
            IN  /\ w.long_i # Zero3 =>
                      \E k \in 1..Len(tire.impulses) :
                          tire.impulses[k] = [impulse |-> w.long_i, at_point |-> NoPoint]
                /\ \A k \in 1..Len(tire.impulses) :
                      (tire.impulses[k].at_point.some
                          /\ tire.impulses[k].at_point.wheel = w.wheel) =>
                              tire.impulses[k].impulse = w.lat_i

----------------------------------------------------------------------------
(* Properties of the anti-roll bar (SpecArb) *)

\* left + right normal force in a map of the axle
AxleSum(nf) == GetOr0(nf, arb.left) + GetOr0(nf, arb.right)

\* the transfer of the call, when the call gets as far as computing one
ArbTransfer ==
    arb_transfer(arb.axle_compression[arb.left], arb.axle_compression[arb.right],
                 GetOr0(arb.before, arb.left), GetOr0(arb.before, arb.right),
                 arb.arb_stiffness, arb.fz_ref)

\* the call passed both early returns
ArbActed ==
    /\ arb.pc = "done"
    /\ arb.left \in DOMAIN arb.axle_compression
    /\ arb.right \in DOMAIN arb.axle_compression
    /\ Abs(arb.axle_compression[arb.left] - arb.axle_compression[arb.right]) >= 1

\* C5: for every call of apply_arb_load_transfer on an axle whose two wheels have
\* a normal force, the sum of the left and right normal forces after the call
\* equals their sum before the call.
C5_ArbConservesSum ==
    (arb.pc = "done" /\ {arb.left, arb.right} \subseteq DOMAIN arb.before) =>
        AxleSum(arb.axle_normal_force) = AxleSum(arb.before)

\* C6: for every call in which neither updated normal is clamped to zero
\* (F_n_L - transfer >= 0 and F_n_R + transfer >= 0), the sum of the two normals
\* changes by at most max(F_n_L + F_n_R, 1) * 1e-3.
C6_ArbConservesUnclamped ==
    (/\ ArbActed
     /\ GetOr0(arb.before, arb.left) - ArbTransfer >= 0
     /\ GetOr0(arb.before, arb.right) + ArbTransfer >= 0) =>
        Abs(AxleSum(arb.axle_normal_force) - AxleSum(arb.before)) * Thousand
            <= Max(AxleSum(arb.before), 1)

\* a call that moved load from one side to the other without clamping
C6_Witness ==
    /\ ArbActed
    /\ ArbTransfer # 0
    /\ GetOr0(arb.before, arb.left) - ArbTransfer > 0
    /\ GetOr0(arb.before, arb.right) + ArbTransfer > 0
    /\ arb.axle_normal_force # arb.before

----------------------------------------------------------------------------
(* physics.rs: register_car, the wheels and their suspension *)

WheelOrder == <<"FL", "FR", "RL", "RR">>
RestLength == 5000             \* Wheel.rest_length (1e-4 m)
MaxLength == 9000              \* Wheel.max_length
Radius == 3500                 \* Wheel.radius

\* Wheel.offset (1e-2 m) and Wheel.drive
WheelOffset(w) ==
    <<IF w \in {"FL", "RL"} THEN -80 ELSE 80, -30, IF is_front(w) THEN 150 ELSE -150>>
WheelDrive(w) == ~is_front(w)

\* suspension_from_sag(1350, 4, 0.05, 0.9): k = (m/4 * g) / sag, c = 2 zeta sqrt(k m/4)
Stiffness == RDiv(Mass * 981 * 20, 400)
Damping == RDiv(18 * Sqrt(RDiv(Stiffness * Mass, 4)), 10)

\* the result of query_pipeline.cast_ray for one wheel: None, or Some((_, toi))
NoHit == [hit |-> FALSE, toi |-> 0]
Hit(toi) == [hit |-> TRUE, toi |-> toi]

\* compression = (rest_length - (toi - radius)).clamp(0, max_length)
wheel_compression(ray) == Clamp(RestLength - (ray.toi - Radius), 0, MaxLength)

\* mutant: a wheel is grounded whenever its ray hits below the wheel
wheel_grounded_on_hit(ray) == ray.hit /\ ray.toi > Radius

\* grounded = the ray hits, toi > radius and the clamped compression is positive
wheel_grounded(ray) ==
    ray.hit /\ ray.toi > Radius /\ wheel_compression(ray) > 0

\* a x b, both on grids whose product is `one` times the result's grid
v_cross(a, b, one) ==
    <<RDiv(a[2] * b[3] - a[3] * b[2], one),
      RDiv(a[3] * b[1] - a[1] * b[3], one),
      RDiv(a[1] * b[2] - a[2] * b[1], one)>>

\* r = hit_point - com for an upright chassis (1e-2 m): the ray starts
\* radius + 0.02 above the wheel offset, the centre of mass is 0.15 below the origin
contact_arm(w, ray) ==
    <<WheelOffset(w)[1], WheelOffset(w)[2] + 52 - ray.toi \div 100, WheelOffset(w)[3]>>

\* point_vel = linvel + angvel x r
point_velocity(b, w, ray) == v_add(b.linvel, v_cross(b.angvel, contact_arm(w, ray), 100))

\* suspension_vel: 0.05 m/s deadzone, then rebound scaled by 0.15
suspension_velocity(point_vel) ==
    Let(IF Abs(point_vel[2]) < 5 THEN 0 ELSE point_vel[2], LAMBDA sv :
        IF sv > 0 THEN RDiv(sv * 15, 100) ELSE sv)

\* (spring_force + damper_force).max(0).min(25_000)
MaxNormalForce == 25000
raw_normal_force(compression, suspension_vel) ==
    Let(RDiv(Stiffness * compression, TenThousand), LAMBDA spring_force :
    Let(RDiv(spring_force * 6, 10), LAMBDA limit :
    Let(Clamp(RDiv(-Damping * suspension_vel, 100), -limit, limit), LAMBDA damper_force :
        Min(Max(spring_force + damper_force, 0), MaxNormalForce))))

\* the normal force that enters the suspension impulse and the contact patch:
\* scaled by 0.7 when |suspension_vel| > 1.5, never below 200 N
MinNormalForce == 200
wheel_normal_force(compression, suspension_vel) ==
    Let(raw_normal_force(compression, suspension_vel), LAMBDA nf :
    Let(IF Abs(suspension_vel) > 150 THEN RDiv(nf * 7, 10) ELSE nf, LAMBDA damped :
        IF damped < MinNormalForce THEN MinNormalForce ELSE damped))

\* x.powf(-0.15) on the 1e-3 grid: 2^-0.15 = 0.9013 per doubling, linear between
RECURSIVE PowLoad(_)
PowLoad(x) ==
    IF x >= 2 * Thousand THEN RDiv(PowLoad(x \div 2) * 9013, TenThousand)
    ELSE IF x < Thousand THEN RDiv(PowLoad(2 * x) * TenThousand, 9013)
    ELSE Thousand - RDiv((x - Thousand) * 987, TenThousand)

\* mu_lat = (mu0 * load_ratio.powf(-k)).clamp(mu0 * 0.6, mu0 * 1.1)
wheel_mu_lat(normal_force) ==
    LET load_ratio == Max(RDiv(normal_force * Thousand, FzRef), 200)
    IN  Clamp(RDiv(MuBase * PowLoad(load_ratio), Thousand),
              RDiv(MuBase * 6, 10), RDiv(MuBase * 11, 10))

----------------------------------------------------------------------------
(* physics.rs: steering geometry (angles in mrad, directions on the 1e-3 grid) *)

Wheelbase == 2500              \* GT86.wheelbase (mm)
TrackWidth == 1500             \* GT86.track_width (mm)
Ackermann == 800               \* GT86.ackermann

\* sin, cos and tan of an angle |x| <= 0.8 rad by their series
SinM(x) ==
    Let(RDiv(x * x, Thousand), LAMBDA x2 :
        x - RDiv(x2 * x, 6 * Thousand) + RDiv(RDiv(x2 * x2, Thousand) * x, 120 * Thousand))
CosM(x) ==
    Let(RDiv(x * x, Thousand), LAMBDA x2 :
        Thousand - RDiv(x2, 2) + RDiv(x2 * x2, 24 * Thousand))
TanM(x) == RDiv(SinM(x) * Thousand, CosM(x))

\* (left, right) front wheel angles of the bicycle-model angle `base`
ackermann_angles(base) ==
    IF base = 0 THEN <<0, 0>>
    ELSE Let(Sign(base), LAMBDA sign :
         Let(RDiv(Wheelbase * Thousand, TanM(Abs(base))), LAMBDA r :
         Let(Max(r - TrackWidth \div 2, 10), LAMBDA r_in :
         Let(Max(r + TrackWidth \div 2, 10), LAMBDA r_out :
         Let(atan2(Wheelbase, r_in) * sign, LAMBDA left :
         Let(atan2(Wheelbase, r_out) * sign, LAMBDA right :
             IF sign > 0 THEN <<left, right>> ELSE <<right, left>>))))))

\* the steer angle of a wheel: blended Ackermann on the front axle, 0 on the rear
wheel_angle(w, base) ==
    Let(ackermann_angles(base), LAMBDA ack :
    Let(IF w = "FL" THEN ack[1] ELSE ack[2], LAMBDA a :
        IF is_front(w)
        THEN RDiv((Thousand - Ackermann) * base + Ackermann * a, Thousand)
        ELSE 0))

\* v.normalize()
normalize(v) ==
    Let(v_mag(v), LAMBDA m :
        <<RDiv(v[1] * Thousand, m), RDiv(v[2] * Thousand, m), RDiv(v[3] * Thousand, m)>>)

\* steer_rot * (rot * (0, 0, -1)) for an upright chassis heading -Z, on the ground plane
wheel_forward(angle) == normalize(<<-SinM(angle), 0, -CosM(angle)>>)

\* wheel_side = wheel_forward x ground_n, ground_n = +Y
wheel_side(forward) == <<-forward[3], 0, forward[1]>>

\* roll_factor = 0.30 * (1 - |steer|.clamp(0, 1) * 0.65)
roll_factor(steer) ==
    RDiv(300 * (Thousand - RDiv(Clamp(Abs(steer), 0, Thousand) * 650, Thousand)), Thousand)

\* the ContactPatch apply_suspension pushes for a grounded wheel.  vel_world and
\* mu_long, which solve_longitudinal reads, are the contact point velocity and mu0
PhysicsPatch(v, b, w, ray) ==
    Let(point_velocity(b, w, ray), LAMBDA point_vel :
    Let(suspension_velocity(point_vel), LAMBDA sv :
    Let(wheel_forward(wheel_angle(w, v.steer_angle)), LAMBDA forward :
    Let(wheel_side(forward), LAMBDA side :
        [wheel |-> w, grounded |-> TRUE, forward |-> forward, side |-> side,
         v_long |-> RDiv(v_dot(point_vel, forward), Thousand),
         v_lat |-> RDiv(v_dot(point_vel, side), Thousand),
         vel_world |-> point_vel,
         normal_force |-> wheel_normal_force(wheel_compression(ray), sv),
         mu_lat |-> wheel_mu_lat(raw_normal_force(wheel_compression(ray), sv)),
         mu_long |-> MuBase, roll_factor |-> roll_factor(v.steer),
         drive |-> WheelDrive(w)]))))

----------------------------------------------------------------------------
(* physics.rs: rigid bodies.  translation in 1e-1 m with non-finite values,
   linvel in 1e-2 m/s, angvel in 1e-2 rad/s *)

Players == {"p1"}

Finite(x) == [kind |-> "finite", val |-> x]
NaN == [kind |-> "nan", val |-> 0]
Infinity == [kind |-> "inf", val |-> 0]
Translation(x, y, z) == <<Finite(x), Finite(y), Finite(z)>>

\* f32::is_finite, and x.abs() > limit (false for NaN, true for an infinity)
is_finite(c) == c.kind = "finite"
abs_gt(c, limit) == c.kind = "inf" \/ (c.kind = "finite" /\ Abs(c.val) > limit)

Body(translation, linvel, angvel) ==
    [translation |-> translation, linvel |-> linvel, angvel |-> angvel]

\* PhysicsWorld::new: the fixed ground body
GroundBody == Body(Translation(0, -1, 0), Zero3, Zero3)

\* principal moments of inertia of the chassis cuboid(1.0, 0.35, 2.1), kg m^2
Inertia ==
    <<RDiv(BodyMass * (35 * 35 + 210 * 210), 30000),
      RDiv(BodyMass * (100 * 100 + 210 * 210), 30000),
      RDiv(BodyMass * (100 * 100 + 35 * 35), 30000)>>

\* where an impulse of the list acts, relative to the centre of mass (1e-2 m):
\* the hit point, or the tire's apply_point = hit_point + n * radius * 0.25
impulse_arm(at_point, rays) ==
    Let(contact_arm(at_point.wheel, rays[at_point.wheel]), LAMBDA r :
        IF at_point.kind = "apply_point"
        THEN <<r[1], r[2] + RDiv(Radius, 400), r[3]>>
        ELSE r)

\* body.apply_impulse_at_point(impulse, p) / body.apply_impulse(impulse)
apply_impulse(b, imp, rays) ==
    Let(<<RDiv(imp.impulse[1], BodyMass), RDiv(imp.impulse[2], BodyMass),
          RDiv(imp.impulse[3], BodyMass)>>, LAMBDA dv :
    Let(IF imp.at_point.some
        THEN v_cross(impulse_arm(imp.at_point, rays), imp.impulse, 1)
        ELSE Zero3, LAMBDA t :
    Let(<<RDiv(t[1], Inertia[1] * 100), RDiv(t[2], Inertia[2] * 100),
          RDiv(t[3], Inertia[3] * 100)>>, LAMBDA dw :
        [b EXCEPT !.linvel = v_add(b.linvel, dv), !.angvel = v_add(b.angvel, dw)])))

\* for (handle, impulse, point) in impulses { ... }: in list order
RECURSIVE apply_impulses(_, _, _)
apply_impulses(b, impulses, rays) ==
    IF impulses = <<>> THEN b
    ELSE apply_impulses(apply_impulse(b, Head(impulses), rays), Tail(impulses), rays)

\* e^(-rate * dt) on the 1e-3 grid
ExpDecay(rate) ==
    Let(RDiv(rate * Thousand, DtInv), LAMBDA x :
        Thousand - x + RDiv(x * x, 2 * Thousand) - RDiv(RDiv(x * x, Thousand) * x, 6 * Thousand))

\* apply_velocity_damping for one chassis
apply_velocity_damping(b) ==
    IF v_mag(b.linvel) < 100
    THEN [b EXCEPT !.angvel = <<0, RDiv(b.angvel[2] * ExpDecay(6), Thousand), 0>>]
    ELSE [b EXCEPT !.angvel = v_scale(b.angvel, ExpDecay(2), Thousand)]

\* the safety phase of step
MaxCoord == 10000              \* 1_000.0 m
SafePose == Body(Translation(0, 10, 0), Zero3, Zero3)

\* mutant: the range test alone, which a NaN passes
is_bad_range_only(pos) == \E i \in 1..3 : abs_gt(pos[i], MaxCoord)

is_bad(pos) == \E i \in 1..3 : ~is_finite(pos[i]) \/ abs_gt(pos[i], MaxCoord)

\* set_translation(safe), set_linvel(0), set_angvel(0) on every bad body
safety_phase(bodies) ==
    [h \in DOMAIN bodies |->
        IF is_bad(bodies[h].translation) THEN SafePose ELSE bodies[h]]

----------------------------------------------------------------------------
(* physics.rs: vehicles and the tick *)

\* spawn_vehicle_for_player: the Vehicle and its chassis at (x, 1.3, z)
NewVehicle(handle) ==
    [body |-> handle, throttle |-> 0, steer |-> 0, brake |-> 0, steer_angle |-> 0]
SpawnHeight == 13
NewChassis(position) == Body(Translation(position[1], SpawnHeight, position[3]), Zero3, Zero3)

\* apply_vehicle_controls for one vehicle: clamps, then the rate-limited steer angle
MaxSteerAngle == 750           \* max_angle = 0.75 rad
MaxSteerRate == 2500           \* max_steer_rate = 2.5 rad/s
apply_vehicle_controls(v, bodies) ==
    Let(Clamp(v.throttle, -Thousand, Thousand), LAMBDA throttle :
    Let(Clamp(v.steer, -Thousand, Thousand), LAMBDA steer :
    Let(Clamp(v.brake, 0, Thousand), LAMBDA brake :
    Let(IF v.body \in DOMAIN bodies THEN v_mag(bodies[v.body].linvel) ELSE 0, LAMBDA speed :
    Let(Clamp(Thousand - RDiv(speed, 3), 350, Thousand), LAMBDA steer_scale :
    Let(RDiv(RDiv(steer * MaxSteerAngle, Thousand) * steer_scale, Thousand), LAMBDA target :
    Let(RDiv(MaxSteerRate, DtInv), LAMBDA max_step :
    Let(Clamp(target - v.steer_angle, -max_step, max_step), LAMBDA step_ :
        [v EXCEPT !.throttle = throttle, !.steer = steer, !.brake = brake,
                  !.steer_angle = v.steer_angle + step_]))))))))

\* the wheels of the loop whose ray grounds them, in loop order
GroundedWheels(rays) == SelectSeq(WheelOrder, LAMBDA w : wheel_grounded(rays[w]))

\* what the wheel loop leaves in axle_compression
axle_compression_of(rays) ==
    [w \in {x \in WheelIds : wheel_grounded(rays[x])} |-> wheel_compression(rays[w])]

\* the suspension impulses the wheel loop pushes: n * (normal_force * dt) at the hit point
suspension_impulses(b, patches) ==
    Let(SelectSeq(patches, LAMBDA c :
            ~(v_mag(b.linvel) < 5 /\ c.normal_force < MinNormalForce)), LAMBDA pushed :
        [i \in 1..Len(pushed) |->
            [impulse  |-> <<0, RDiv(pushed[i].normal_force * 100, DtInv), 0>>,
             at_point |-> SomePoint("hit_point", pushed[i].wheel)]])

\* mutant: the suspension impulses are applied as the wheel loop produces them,
\* so the tire contacts are built from the velocities they left
apply_suspension_eager(v, b, rays) ==
    Let(GroundedWheels(rays), LAMBDA grounded :
    Let([i \in 1..Len(grounded) |-> PhysicsPatch(v, b, grounded[i], rays[grounded[i]])],
        LAMBDA patches :
    Let(suspension_impulses(b, patches), LAMBDA pushed :
    Let(apply_impulses(b, pushed, rays), LAMBDA moved :
    Let(SelectSeq([i \in 1..Len(grounded) |->
                      PhysicsPatch(v, moved, grounded[i], rays[grounded[i]])],
                  LAMBDA c : c.normal_force >= MinTireLoad), LAMBDA contacts :
    Let(solve_step(SolveContext(TRUE, TRUE), [throttle |-> v.throttle, brake |-> v.brake],
                   contacts), LAMBDA tires :
        [rays |-> rays,
         throttle |-> v.throttle, brake |-> v.brake, steer |-> v.steer,
         normal_force |-> [w \in {patches[i].wheel : i \in 1..Len(patches)} |->
                             (CHOOSE c \in {patches[i] : i \in 1..Len(patches)} :
                                 c.wheel = w).normal_force],
         axle_compression |-> axle_compression_of(rays),
         contacts |-> contacts,
         impulses |-> pushed \o tires,
         start |-> b,
         at_apply |-> b,
         applied |-> apply_impulses(moved, tires, rays)]))))))

\* apply_suspension for one vehicle: the wheel loop, the tire solve, and the
\* application of the impulse list to the chassis
apply_suspension(v, b, rays) ==
    Let(GroundedWheels(rays), LAMBDA grounded :
    Let([i \in 1..Len(grounded) |-> PhysicsPatch(v, b, grounded[i], rays[grounded[i]])],
        LAMBDA patches :
    Let(SelectSeq(patches, LAMBDA c : c.normal_force >= MinTireLoad), LAMBDA contacts :
    Let(SolveContext(TRUE, TRUE), LAMBDA ctx :
    Let([throttle |-> v.throttle, brake |-> v.brake], LAMBDA control :
    Let(suspension_impulses(b, patches) \o solve_step(ctx, control, contacts),
        LAMBDA impulses :
        [rays |-> rays,
         throttle |-> v.throttle, brake |-> v.brake, steer |-> v.steer,
         normal_force |-> [w \in {patches[i].wheel : i \in 1..Len(patches)} |->
                             (CHOOSE c \in {patches[i] : i \in 1..Len(patches)} :
                                 c.wheel = w).normal_force],
         axle_compression |-> axle_compression_of(rays),
         contacts |-> contacts,
         impulses |-> impulses,
         start |-> b,
         at_apply |-> b,
         applied |-> apply_impulses(b, impulses, rays)]))))))

----------------------------------------------------------------------------
(* The server: spawn, player input and the physics step *)

RayLevels == 2

\* rays that ground a wheel (compression 12 cm, 24 cm, ...) and rays that do not:
\* no hit, a hit at toi = radius, a hit at the suspension's rest length
GroundedRays == {Hit(RestLength + Radius - 1200 * i) : i \in 1..RayLevels}
UngroundedRays == {NoHit, Hit(Radius), Hit(RestLength + Radius)}
RayScenarios ==
    {[w \in WheelIds |-> r] : r \in GroundedRays \cup {NoHit}} \cup
    {[w \in WheelIds |-> IF w = "FL" THEN u ELSE Hit(RestLength + Radius - 1200)] :
        u \in UngroundedRays \cup GroundedRays}

\* what pipeline.step can leave a chassis with: creeping and rebounding, falling
\* fast at the edge of the range, out of range, NaN, infinite
IntegratorOutcomes ==
    {Body(Translation(-50, 9, 0), <<30, 40, 0>>, <<0, 50, 0>>),
     Body(Translation(MaxCoord, 20, -MaxCoord), <<0, -200, -1500>>, <<20, 0, 0>>),
     Body(Translation(0, 9, -MaxCoord - 1), <<0, 0, -1500>>, Zero3),
     Body(<<NaN, NaN, NaN>>, Zero3, Zero3),
     Body(<<Finite(0), Infinity, Finite(0)>>, Zero3, Zero3)}

\* SpawnManager::allocate_spawn positions (1e-1 m)
SpawnPositions == {<<-50, 40, 0>>, <<50, 40, 0>>}

\* <<throttle, steer, brake>> as a client sends them
InputSamples == {<<2000, 50, -500>>, <<0, 0, 1000>>, <<1000, 0, 900>>}

\* a connection task before it has spawned its vehicle; input is the last
\* <<throttle, steer, brake>> apply_player_input was called with for the id
NoSession == [pc |-> "none", input |-> <<>>]

\* the simulation loop between two iterations
SimWaiting == [pc |-> "waiting", read |-> <<>>]

Init ==
    /\ vehicle = <<>>
    /\ body = [h \in {"ground"} |-> GroundBody]
    /\ tick = TickIdle
    /\ arb = ArbIdle
    /\ tire = TireIdle
    /\ tstate = TStateIdle
    /\ session = [p \in Players |-> NoSession]
    /\ lock = "free"
    /\ sim = SimWaiting
    /\ game = GameIdle
    /\ glock = "idle"

\* mutant: a task enters its critical section whoever holds the mutex
can_lock_always(l) == TRUE

\* physics.lock().await returns: nobody holds the Mutex<PhysicsWorld>
can_lock(l) == l = "free"

\* the loop holds the Mutex<GameState> from its state.lock() to the end of the iteration
game_locked == sim.pc \in {"stepping", "stepped"}

\* <<throttle, steer, brake>> of every vehicle
Controls(vehicles) ==
    [p \in DOMAIN vehicles |-> <<vehicles[p].throttle, vehicles[p].steer, vehicles[p].brake>>]

\* a connection task, step 5: lock physics, spawn_vehicle_for_player(id, position), unlock
SpawnVehicle(p, position) ==
    /\ session[p].pc = "none"
    /\ p \notin DOMAIN vehicle
    /\ can_lock(lock)
    /\ vehicle' = Insert(vehicle, p, NewVehicle(p))
    /\ body' = Insert(body, p, NewChassis(position))
    /\ session' = [session EXCEPT ![p].pc = "open"]
    /\ UNCHANGED <<arb, tire, tick, tstate, lock, sim, game, glock>>

\* lock physics, apply_player_input(player_id, throttle, steer, brake, ...), unlock:
\* the read loop of an open connection, or a call with an id that has no vehicle
ApplyPlayerInput(p, throttle, steer, brake) ==
    /\ session[p].pc # "closed"
    /\ can_lock(lock)
    /\ vehicle' = IF p \in DOMAIN vehicle
                  THEN [vehicle EXCEPT ![p].throttle = Clamp(throttle, -Thousand, Thousand),
                                       ![p].steer = Clamp(steer, -Thousand, Thousand),
                                       ![p].brake = Clamp(brake, 0, Thousand)]
                  ELSE vehicle
    /\ session' = [session EXCEPT ![p].input = <<throttle, steer, brake>>]
    /\ UNCHANGED <<arb, tire, body, tick, tstate, lock, sim, game, glock>>

\* a connection task, step 9: the read loop ended; game.remove_entity under the
\* game lock, the physics world is not touched
Disconnect(p) ==
    /\ session[p].pc = "open"
    /\ ~game_locked
    /\ session' = [session EXCEPT ![p].pc = "closed"]
    /\ UNCHANGED <<arb, tire, vehicle, body, tick, tstate, lock, sim, game, glock>>

\* the loop: let mut phys = physics.lock().await
SimLock ==
    /\ sim.pc = "waiting"
    /\ can_lock(lock)
    /\ lock' = "sim"
    /\ sim' = [sim EXCEPT !.pc = "locked"]
    /\ UNCHANGED <<arb, tire, vehicle, body, tick, tstate, session, game, glock>>

\* the loop: state.lock().await and the entity loop, which finds no last_input;
\* phys.step is entered with the controls recorded in read
SimLockGame ==
    /\ sim.pc = "locked"
    /\ sim' = [pc |-> "stepping", read |-> Controls(vehicle)]
    /\ UNCHANGED <<arb, tire, vehicle, body, tick, tstate, session, lock, game, glock>>

\* the loop: the broadcasts and clear_debug_overlay, then both guards drop at the
\* end of the iteration; what the step recorded of itself is gone
SimUnlock ==
    /\ sim.pc = "stepped"
    /\ lock' = "free"
    /\ sim' = SimWaiting
    /\ tick' = TickIdle
    /\ UNCHANGED <<arb, tire, vehicle, body, tstate, session, game, glock>>

\* the worlds step(dt) can leave, for the rays the wheels cast: controls,
\* suspension and tires, damping, pipeline.step, safety phase
step(vehicles, bodies, rays) ==
    Let([p \in DOMAIN vehicles |-> apply_vehicle_controls(vehicles[p], bodies)],
        LAMBDA controlled :
    Let([p \in DOMAIN vehicles |->
            apply_suspension(controlled[p], bodies[controlled[p].body], rays[p])],
        LAMBDA cars :
    Let([p \in DOMAIN vehicles |-> apply_velocity_damping(cars[p].applied)],
        LAMBDA damped :
        {Let([h \in DOMAIN bodies |-> IF h \in DOMAIN vehicles THEN out[h] ELSE bodies[h]],
             LAMBDA integrated :
                [vehicle |-> controlled,
                 body    |-> safety_phase(integrated),
                 tick    |-> [pc |-> "stepped", cars |-> cars, damped |-> damped,
                              integrated |-> integrated]]) :
            out \in [DOMAIN vehicles -> IntegratorOutcomes]})))

\* the loop: phys.step(1.0 / 60.0)
Step ==
    /\ sim.pc = "stepping"
    /\ \E rays \in [DOMAIN vehicle -> RayScenarios] :
       \E world \in step(vehicle, body, rays) :
           /\ vehicle' = world.vehicle
           /\ body' = world.body
           /\ tick' = world.tick
    /\ sim' = [sim EXCEPT !.pc = "stepped"]
    /\ UNCHANGED <<arb, tire, tstate, session, lock, game, glock>>

Next ==
    \/ \E p \in Players, position \in SpawnPositions : SpawnVehicle(p, position)
    \/ \E p \in Players, i \in InputSamples : ApplyPlayerInput(p, i[1], i[2], i[3])
    \/ \E p \in Players : Disconnect(p)
    \/ SimLock
    \/ SimLockGame
    \/ Step
    \/ SimUnlock

Spec == Init /\ [][Next]_vars

----------------------------------------------------------------------------
(* Properties of the physics step (Spec) *)

\* the wheel's ray has no hit, or toi <= radius, or the clamped compression is <= 0
RayUngrounded(ray) ==
    \/ ~ray.hit
    \/ ray.toi <= Radius
    \/ Clamp(RestLength - (ray.toi - Radius), 0, MaxLength) <= 0

\* the impulses of a car's list that act at a point of wheel w
WheelImpulses(car, w) ==
    {i \in 1..Len(car.impulses) : car.impulses[i].at_point.wheel = w}

\* C7: in every tick, for every grounded wheel, the normal force that enters the
\* suspension impulse and the tire solve satisfies 0 <= F_n <= 2.2 * F_z_ref.
C7_NormalForceCapped ==
    tick.pc = "stepped" =>
        \A p \in DOMAIN tick.cars :
            \A w \in DOMAIN tick.cars[p].normal_force :
                /\ tick.cars[p].normal_force[w] >= 0
                /\ tick.cars[p].normal_force[w] * 10 <= 22 * FzRef

\* C8: a wheel whose ray has no hit, whose toi is <= radius or whose clamped
\* compression is <= 0 contributes no suspension impulse and no tire impulse to
\* the impulse list, no contact to the tire solve and no entry to the axle
\* compression map.
C8_UngroundedWheelInert ==
    tick.pc = "stepped" =>
        \A p \in DOMAIN tick.cars :
            \A w \in WheelIds :
                RayUngrounded(tick.cars[p].rays[w]) =>
                    /\ WheelImpulses(tick.cars[p], w) = {}
                    /\ w \notin DOMAIN tick.cars[p].axle_compression
                    /\ w \notin DOMAIN tick.cars[p].normal_force
                    /\ \A i \in 1..Len(tick.cars[p].contacts) :
                          tick.cars[p].contacts[i].wheel # w

\* a tick in which a wheel's ray hits at the rest length (compression 0) while
\* the other wheels push impulses
C8_Witness ==
    /\ tick.pc = "stepped"
    /\ \E p \in DOMAIN tick.cars :
          /\ tick.cars[p].rays["FL"] = Hit(RestLength + Radius)
          /\ WheelImpulses(tick.cars[p], "FR") # {}
          /\ "FR" \in DOMAIN tick.cars[p].axle_compression

\* C9: in every tick in which brake > 0.8 and the chassis planar speed is below
\* 0.4 m/s, the chassis planar linear velocity and its angular velocity are zero
\* when the tick's impulses are applied.
C9_StaticFrictionLock ==
    tick.pc = "stepped" =>
        \A p \in DOMAIN tick.cars :
            LET car == tick.cars[p]
            IN  (/\ car.brake > 800
                 /\ v_mag(<<car.start.linvel[1], 0, car.start.linvel[3]>>) < 40) =>
                    /\ car.at_apply.linvel[1] = 0
                    /\ car.at_apply.linvel[3] = 0
                    /\ car.at_apply.angvel = Zero3

\* a translation that is finite with every coordinate within 1000 m
InRange(pos) == \A i \in 1..3 : pos[i].kind = "finite" /\ Abs(pos[i].val) <= MaxCoord

\* C10: at the end of every step every body whose translation after integration
\* was non-finite or out of range is at the safe pose with zero velocities, a body
\* within range is as the integration left it, and every translation is finite
\* and within 1000 m.
C10_SafetyPhase ==
    /\ \A h \in DOMAIN body : InRange(body[h].translation)
    /\ tick.pc = "stepped" =>
          \A h \in DOMAIN tick.integrated :
              IF InRange(tick.integrated[h].translation)
              THEN body[h] = tick.integrated[h]
              ELSE body[h] = SafePose

\* a step whose integration left the chassis at a NaN translation and the ground
\* in range
C10_Witness ==
    /\ tick.pc = "stepped"
    /\ \E h \in DOMAIN tick.integrated :
          /\ tick.integrated[h].translation[1] = NaN
          /\ body[h] = SafePose
    /\ body["ground"] = GroundBody

----------------------------------------------------------------------------
(* Properties of the server: controls, sessions, ordering, locking (Spec) *)

\* throttle in [-1, 1], steer in [-1, 1], brake in [0, 1]
InControlRange(throttle, steer, brake) ==
    /\ -Thousand <= throttle /\ throttle <= Thousand
    /\ -Thousand <= steer /\ steer <= Thousand
    /\ 0 <= brake /\ brake <= Thousand

\* stored controls are in range, and so are the controls a tick's pipeline read
ControlsInRange ==
    /\ \A p \in DOMAIN vehicle :
          InControlRange(vehicle[p].throttle, vehicle[p].steer, vehicle[p].brake)
    /\ tick.pc = "stepped" =>
          \A p \in DOMAIN tick.cars :
              InControlRange(tick.cars[p].throttle, tick.cars[p].steer, tick.cars[p].brake)

\* a call of apply_player_input for an id that has no vehicle leaves the world as it was
NoVehicleNoChange ==
    \A p \in Players :
        (session'[p] # session[p] /\ session'[p].pc = "none" /\ p \notin DOMAIN vehicle) =>
            UNCHANGED <<vehicle, body, tick>>

\* C15: after any sequence of apply_player_input calls and ticks every vehicle's
\* stored controls satisfy throttle in [-1, 1], brake in [0, 1], steer in [-1, 1]
\* whenever the tire pipeline reads them, and apply_player_input for an id with no
\* vehicle changes nothing.
C15_ControlsClamped == []ControlsInRange /\ [][NoVehicleNoChange]_vars

\* a tick that read the controls stored from the input (2.0, 0.05, -0.5)
C15_Witness ==
    /\ tick.pc = "stepped"
    /\ \E p \in DOMAIN tick.cars :
          /\ session[p].input = <<2000, 50, -500>>
          /\ tick.cars[p].throttle = Thousand
          /\ tick.cars[p].steer = 50
          /\ tick.cars[p].brake = 0

\* C16: when a player's session has ended its vehicle is gone from the physics
\* world: no later tick computes an impulse for that player.
C16_DisconnectDespawns ==
    tick.pc = "stepped" =>
        \A p \in Players :
            session[p].pc = "closed" =>
                \/ p \notin DOMAIN tick.cars
                \/ tick.cars[p].impulses = <<>>

ArbFront == 18000              \* GT86.arb_front (N/m)
ArbRear == 12000               \* GT86.arb_rear (N/m)

\* the normal forces of a car after apply_arb_load_transfer on the front and the
\* rear axle
ArbNormals(car) ==
    apply_arb_load_transfer("RL", "RR",
        apply_arb_load_transfer("FL", "FR", car.normal_force, car.axle_compression,
                                ArbFront, FzRef),
        car.axle_compression, ArbRear, FzRef)

\* C17: in every tick the anti-roll redistribution of both axles runs after the
\* contact builds and before the tire solve: the normal force of every contact
\* the tire solver gets, and of every suspension impulse, is the redistributed one.
C17_AntiRollBeforeTireSolve ==
    tick.pc = "stepped" =>
        \A p \in DOMAIN tick.cars :
            LET car == tick.cars[p]
            IN  /\ \A i \in 1..Len(car.contacts) :
                      car.contacts[i].normal_force = ArbNormals(car)[car.contacts[i].wheel]
                /\ \A k \in 1..Len(car.impulses) :
                      car.impulses[k].at_point.kind = "hit_point" =>
                          car.impulses[k].impulse[2] =
                              RDiv(ArbNormals(car)[car.impulses[k].at_point.wheel] * 100, DtInv)

\* the impulse list of a vehicle when every contact, suspension impulse and tire
\* impulse is computed from the chassis b
ImpulsesFrom(v, b, rays) ==
    Let(GroundedWheels(rays), LAMBDA grounded :
    Let([i \in 1..Len(grounded) |-> PhysicsPatch(v, b, grounded[i], rays[grounded[i]])],
        LAMBDA patches :
        suspension_impulses(b, patches) \o
        solve_step(SolveContext(TRUE, TRUE), [throttle |-> v.throttle, brake |-> v.brake],
                   SelectSeq(patches, LAMBDA c : c.normal_force >= MinTireLoad))))

\* the chassis after the first k impulses of the car's list, applied one by one
RECURSIVE AppliedUpTo(_, _)
AppliedUpTo(car, k) ==
    IF k = 0 THEN car.at_apply
    ELSE apply_impulse(AppliedUpTo(car, k - 1), car.impulses[k], car.rays)

\* C18: within a tick every suspension and tire impulse of a vehicle is in the
\* list before the first is applied, the impulses are applied in list order, and
\* each is computed from the velocities the chassis had when the tick began.
C18_AccumulateThenApply ==
    tick.pc = "stepped" =>
        \A p \in DOMAIN tick.cars :
            LET car == tick.cars[p]
            IN  /\ car.at_apply = car.start
                /\ car.impulses = ImpulsesFrom(vehicle[p], car.start, car.rays)
                /\ car.applied = AppliedUpTo(car, Len(car.impulses))

\* a tick of a moving chassis with suspension impulses followed by tire impulses
\* that changed its velocity
C18_Witness ==
    /\ tick.pc = "stepped"
    /\ \E p \in DOMAIN tick.cars :
          LET car == tick.cars[p]
          IN  /\ Len(car.impulses) >= 5
              /\ car.impulses[1].at_point.kind = "hit_point"
              /\ car.impulses[Len(car.impulses)].at_point.kind = "apply_point"
              /\ car.impulses[Len(car.impulses)].impulse # Zero3
              /\ car.start.linvel # Zero3
              /\ car.applied.angvel # car.start.angvel

\* while the loop is inside phys.step the stored controls are the ones it entered
\* with, and they are the ones the tick read
ControlsStable ==
    /\ sim.pc = "stepping" => Controls(vehicle) = sim.read
    /\ sim.pc = "stepped" =>
          /\ DOMAIN tick.cars = DOMAIN sim.read
          /\ \A p \in DOMAIN tick.cars :
                <<tick.cars[p].throttle, tick.cars[p].steer, tick.cars[p].brake>> = sim.read[p]

\* the vehicles and bodies change in a task that took the free mutex, or in the
\* loop's own step
ChangeUnderLock ==
    (vehicle' # vehicle \/ body' # body) =>
        \/ lock = "free"
        \/ sim.pc = "stepping" /\ sim'.pc = "stepped"

\* C19: under every interleaving of the loop with the connection tasks no control
\* write happens between the start and the end of a tick's physics step, and the
\* connection tasks change the physics world only under the physics lock.
C19_StepExcludesWrites == []ControlsStable /\ [][ChangeUnderLock]_vars

\* the loop is inside phys.step with the controls a connection wrote before it
\* took the lock, and the connection is still open
C19_Witness ==
    /\ sim.pc = "stepping" /\ lock = "sim"
    /\ \E p \in DOMAIN sim.read :
          /\ session[p].pc = "open"
          /\ session[p].input # <<>>
          /\ sim.read[p] = <<Thousand, 50, 0>>

----------------------------------------------------------------------------
(* physics.rs: the steering rack over many ticks (SpecRack).  One vehicle, its
   stored steer and the speed of its chassis drawn anew before every tick *)

ConfigMaxSteerAngle == 600     \* GT86.max_steer_angle = 0.6 rad

\* steer inputs in [-1, 1] and chassis velocities: at rest, 15 m/s, 30 m/s
RackSteers == {-Thousand, -400, 0, Thousand}
RackVelocities == {Zero3, <<0, 0, -1500>>, <<3000, 0, 0>>}

InitRack ==
    /\ vehicle = [p \in Players |-> NewVehicle(p)]
    /\ body = [h \in Players |-> NewChassis(<<0, 0, 0>>)]
    /\ tick = TickIdle /\ arb = ArbIdle /\ tire = TireIdle /\ tstate = TStateIdle
    /\ ServerIdle

\* a tick's phase 0 for the steer the client sent last and the speed the chassis has
RackTick ==
    \E steer \in RackSteers, linvel \in RackVelocities :
        /\ body' = [h \in DOMAIN body |-> [body[h] EXCEPT !.linvel = linvel]]
        /\ vehicle' = [p \in DOMAIN vehicle |->
                          apply_vehicle_controls([vehicle[p] EXCEPT !.steer = steer], body')]
        /\ UNCHANGED <<arb, tire, tick, tstate, session, lock, sim, game, glock>>

SpecRack == InitRack /\ [][RackTick]_vars

\* C21: after every tick, for every steer input sequence in [-1, 1] and every
\* chassis speed, the rack angle is within the configured max_steer_angle:
\* |steer_angle| <= A.
C21_RackWithinStops ==
    \A p \in DOMAIN vehicle : Abs(vehicle[p].steer_angle) <= ConfigMaxSteerAngle

----------------------------------------------------------------------------
(* aven_tire/longitudinal.rs: the brake of a wheel that is almost at rest
   (SpecBrake).  Velocities on the 1e-4 m/s grid, impulses on the 1e-4 N*s grid,
   so that speeds on both sides of 1e-3 m/s are told apart *)

\* the low-speed branch, |v_long| < 0.05: cancel the residual when brake > 0.1
near_rest_brake_j(ctx, brake, v_long, normal_force, brake_share) ==
    LET j_act == 100 * long_j_brake_act(ctx, brake_share)
        j_cap == 100 * Max(FrictionImpulse(MuBase, normal_force), 1)
    IN  IF brake > 100
        THEN Clamp(Clamp(-ctx.mass * v_long, -j_act, j_act), -j_cap, j_cap)
        ELSE 0

\* contact velocities with |v_long| < 0.05 m/s: at rest, under, at and over 1e-3 m/s
FineVelocities ==
    {Zero3, <<0, 0, 5>>, <<0, 0, -8>>, <<-4, 0, 3>>, <<6, 0, 8>>, <<0, 0, 10>>,
     <<0, 0, 11>>, <<-9, 0, 12>>, <<0, 0, -100>>, <<300, 0, -400>>, <<-240, 0, -70>>}

InitBrake ==
    /\ \E f \in Forwards, v \in FineVelocities, br \in Brakes, fz \in TireLoads :
          tire = [pc |-> "near_rest", forward |-> f, vel_world |-> v,
                  v_long |-> RDiv(v_dot(v, f), Thousand), brake |-> br,
                  normal_force |-> fz, brake_j |-> 0, brake_impulse |-> Zero3]
    /\ arb = ArbIdle /\ tstate = TStateIdle /\ WorldIdle

\* solve_longitudinal's brake for the patch drawn by InitBrake
BrakeNearRest ==
    /\ tire.pc = "near_rest"
    /\ LET brake_j == near_rest_brake_j(SolveContext(FALSE, FALSE), tire.brake,
                                        tire.v_long, tire.normal_force, BrakeShare)
       IN  tire' = [tire EXCEPT !.pc = "braked", !.brake_j = brake_j,
                       !.brake_impulse = brake_direction(tire.vel_world, brake_j, TenThousand)]
    /\ UNCHANGED <<arb, vehicle, body, tick, tstate, session, lock, sim, game, glock>>

SpecBrake == InitBrake /\ [][BrakeNearRest]_vars

\* planar speed of the braked contact (1e-4 m/s)
BrakedSpeed == v_mag(<<tire.vel_world[1], 0, tire.vel_world[3]>>)

\* C22: the brake impulse of solve_longitudinal never has a positive component
\* along the planar velocity of the contact; when the tangential speed is above
\* 1e-3 it is |J_brake| opposite to that velocity, and when it is below 1e-3 it
\* is the residual cancellation along the wheel's forward vector with the
\* forward/reverse sign.
C22_BrakeOpposesMotion ==
    tire.pc = "braked" =>
        /\ v_dot(tire.brake_impulse, <<tire.vel_world[1], 0, tire.vel_world[3]>>) <= 0
        /\ BrakedSpeed > 10 =>
              tire.brake_impulse =
                  v_scale(<<RDiv(-tire.vel_world[1] * Thousand, BrakedSpeed), 0,
                            RDiv(-tire.vel_world[3] * Thousand, BrakedSpeed)>>,
                          Abs(tire.brake_j), Thousand)
        /\ BrakedSpeed < 10 =>
              tire.brake_impulse = v_scale(tire.forward, tire.brake_j, Thousand)

----------------------------------------------------------------------------
(* Bounds and direction of the anti-roll transfer (SpecArb) *)

ArbLeftBefore == GetOr0(arb.before, arb.left)
ArbRightBefore == GetOr0(arb.before, arb.right)
ArbLeftAfter == GetOr0(arb.axle_normal_force, arb.left)
ArbRightAfter == GetOr0(arb.axle_normal_force, arb.right)
ArbLeftHigher == arb.axle_compression[arb.left] > arb.axle_compression[arb.right]

\* both updated normals are written, non-negative and within 0.4 * fz_ref of
\* what they were
ArbBounded ==
    /\ {arb.left, arb.right} \subseteq DOMAIN arb.axle_normal_force
    /\ ArbLeftAfter >= 0 /\ ArbRightAfter >= 0
    /\ Abs(ArbLeftAfter - ArbLeftBefore) * 10 <= 4 * arb.fz_ref + 5
    /\ Abs(ArbRightAfter - ArbRightBefore) * 10 <= 4 * arb.fz_ref + 5

\* C23 as stated: for every call that redistributes, both updated normals are
\* >= 0 and each changes by at most 0.4 * fz_ref, and the left normal decreases
\* and the right increases exactly when the left compression exceeds the right.
C23_ArbBoundedAndDirected ==
    ArbActed =>
        /\ ArbBounded
        /\ (ArbLeftAfter < ArbLeftBefore /\ ArbRightAfter > ArbRightBefore)
               <=> ArbLeftHigher

\* C23 (amended): for every call that redistributes, both updated normals are
\* >= 0 and each changes by at most 0.4 * fz_ref; when the left compression
\* exceeds the right the left normal does not increase and the right does not
\* decrease, otherwise the left does not decrease and the right does not
\* increase; the left decreases and the right increases only when the left
\* compression exceeds the right.
C23_ArbBoundedAndMonotone ==
    ArbActed =>
        /\ ArbBounded
        /\ IF ArbLeftHigher
           THEN ArbLeftAfter <= ArbLeftBefore /\ ArbRightAfter >= ArbRightBefore
           ELSE ArbLeftAfter >= ArbLeftBefore /\ ArbRightAfter <= ArbRightBefore

\* a call whose transfer hit the cap and moved load from the left wheel to the
\* right wheel
C23_Witness ==
    /\ ArbActed /\ ArbLeftHigher
    /\ ArbTransfer = RDiv(4 * arb.fz_ref, 10)
    /\ ArbLeftAfter < ArbLeftBefore /\ ArbRightAfter > ArbRightBefore

\* C24: the call leaves the normal-force map unchanged (no entry modified or
\* inserted) when either wheel has no compression entry or when the two
\* compressions differ by less than 1e-4.
C24_ArbEarlyReturn ==
    (arb.pc = "done" /\ ~ArbActed) => arb.axle_normal_force = arb.before

\* a call with a stiff bar and a wheel without a normal entry that returned
\* early, on a missing compression or on equal compressions
C24_Witness ==
    /\ arb.pc = "done" /\ arb.arb_stiffness > 0
    /\ arb.left \in DOMAIN arb.axle_compression
    /\ \/ arb.right \notin DOMAIN arb.axle_compression
       \/ arb.axle_compression[arb.right] = arb.axle_compression[arb.left]
    /\ arb.left \in DOMAIN arb.before /\ arb.before[arb.left] > 0
    /\ arb.right \notin DOMAIN arb.before

----------------------------------------------------------------------------
(* The lateral solver under hard braking (SpecTire) *)

\* what solve_brush_lite returns for the contact of the call
TireLateral == solve_brush_lite(tire.ctx, tire.ctrl, TirePatch)

----------------------------------------------------------------------------
(* The suspension impulse of a grounded wheel (Spec) *)

\* 1.5 * F_z_ref * dt on the impulse grid
MaxSuspensionImpulse == RDiv(15 * FzRef * 100, 10 * DtInv)

\* the suspension impulses of a car's list pushed at the hit point of wheel w
SuspensionImpulses(car, w) ==
    {i \in 1..Len(car.impulses) : car.impulses[i].at_point = SomePoint("hit_point", w)}

\* C26: for every grounded wheel in every tick exactly one suspension impulse is
\* pushed, along the ground normal at the contact point, with magnitude
\* clamp(F_n * dt, 0, 1.5 * F_z_ref * dt); a wheel with F_n below 50 N still
\* receives it while producing no tire impulse.
C26_SuspensionImpulseClamped ==
    tick.pc = "stepped" =>
        \A p \in DOMAIN tick.cars :
            \A w \in DOMAIN tick.cars[p].normal_force :
                LET car == tick.cars[p]
                    f_n == car.normal_force[w]
                IN  /\ Cardinality(SuspensionImpulses(car, w)) = 1
                    /\ \A i \in SuspensionImpulses(car, w) :
                          car.impulses[i].impulse =
                              <<0, Clamp(RDiv(f_n * 100, DtInv), 0, MaxSuspensionImpulse), 0>>
                    /\ f_n < MinTireLoad =>
                          \A i \in WheelImpulses(car, w) : i \in SuspensionImpulses(car, w)

----------------------------------------------------------------------------
(* The brake shares of a vehicle's wheels (Spec) *)

\* the sum of the brake shares solve_step passes to solve_longitudinal, one per
\* contact its loop does not skip
BrakeShareSum(car) == Len(Solved(car.contacts)) * BrakeShare

\* the sum of the actuator limits J_brake_act of those wheels
BrakeActSum(car) ==
    Len(Solved(car.contacts)) * long_j_brake_act(SolveContext(TRUE, TRUE), BrakeShare)

\* C29: in every tick the brake shares passed to solve_longitudinal for the
\* tire-solved wheels of a vehicle sum to at most 1, so the sum of the wheels'
\* actuator limits J_brake_act is at most brake_force * dt.
C29_BrakeSharesBounded ==
    tick.pc = "stepped" =>
        \A p \in DOMAIN tick.cars :
            /\ BrakeShareSum(tick.cars[p]) <= Thousand
            /\ BrakeActSum(tick.cars[p]) <= RDiv(BrakeForce * 100, DtInv) + 1

----------------------------------------------------------------------------
(* net.rs, main.rs, state.rs, spawn.rs: the connection tasks and the loop
   under the two mutexes.  The player_id of a connection is its Uuid; the
   handle of a chassis is the id it was spawned for. *)

Conns == {"c1", "c2"}
Teams == {"Red", "Blue"}
InvalidHandle == "invalid"     \* RigidBodyHandle::invalid()
RoomId == 0                    \* let room_id = 0
MaxTick == 1                   \* SharedGameState.tick is counted up to this

\* mutant: the first player goes to Blue, and so does every later one
choose_team_strict(team_counts) ==
    IF GetOr0(team_counts, <<RoomId, "Red">>) < GetOr0(team_counts, <<RoomId, "Blue">>)
    THEN "Red" ELSE "Blue"

\* SpawnManager::choose_team
choose_team(team_counts) ==
    IF GetOr0(team_counts, <<RoomId, "Red">>) <= GetOr0(team_counts, <<RoomId, "Blue">>)
    THEN "Red" ELSE "Blue"

\* SpawnManager::allocate_spawn: the new team_counts and the PlayerSpawnInfo
allocate_spawn(team_counts, player_id) ==
    LET team == choose_team(team_counts)
    IN  [team_counts |-> Insert(team_counts, <<RoomId, team>>,
                                GetOr0(team_counts, <<RoomId, team>>) + 1),
         info |-> [player_id |-> player_id, room_id |-> RoomId, team |-> team,
                   position |-> IF team = "Red" THEN <<-50, 40, 0>> ELSE <<50, 40, 0>>]]

\* SharedGameState::add_entity
add_entity(entities, id) ==
    Insert(entities, id, [id |-> id, room_id |-> 0, team |-> "Red",
                          body_handle |-> InvalidHandle, last_input |-> "None"])

\* SharedGameState::apply_spawn_info
apply_spawn_info(entities, spawn) ==
    IF spawn.player_id \in DOMAIN entities
    THEN [entities EXCEPT ![spawn.player_id].room_id = spawn.room_id,
                          ![spawn.player_id].team = spawn.team]
    ELSE entities

\* SharedGameState::attach_body
attach_body(entities, id, handle) ==
    IF id \in DOMAIN entities
    THEN [entities EXCEPT ![id].body_handle = handle]
    ELSE entities

\* SharedGameState::remove_entity
remove_entity(entities, id) == [e \in DOMAIN entities \ {id} |-> entities[e]]

\* PhysicsWorld::apply_player_input
apply_player_input(vehicles, player_id, throttle, steer, brake) ==
    IF player_id \in DOMAIN vehicles
    THEN [vehicles EXCEPT ![player_id].throttle = Clamp(throttle, -Thousand, Thousand),
                          ![player_id].steer = Clamp(steer, -Thousand, Thousand),
                          ![player_id].brake = Clamp(brake, 0, Thousand)]
    ELSE vehicles

\* main.rs, the entity loop: the entities whose last input the loop applies
loop_inputs(entities) ==
    {e \in DOMAIN entities :
        entities[e].body_handle # InvalidHandle /\ entities[e].last_input # "None"}

\* mutant: every entity is reported, with or without a body
snapshot_players_unfiltered(entities, bodies) == DOMAIN entities

\* broadcast_snapshot: the ids in players_json
snapshot_players(entities, bodies) ==
    {e \in DOMAIN entities :
        entities[e].body_handle # InvalidHandle /\ entities[e].body_handle \in DOMAIN bodies}

\* broadcast_snapshot: nothing without clients, else the players and the
\* entities logged as skipped
NoSnapshot == [sent |-> FALSE, players |-> {}, skipped |-> {}]
broadcast_snapshot(clients, entities, bodies) ==
    IF clients = 0 THEN NoSnapshot
    ELSE [sent |-> TRUE,
          players |-> snapshot_players(entities, bodies),
          skipped |-> {e \in DOMAIN entities : entities[e].body_handle = InvalidHandle}]

\* mutant: the guard of a lock section outlives the section
drop_guard_leaked(holder) == holder

\* the MutexGuard goes out of scope at the end of its block
drop_guard(holder) == "free"

\* a connection task at its first state_clone.lock().await
NewTask == [pc |-> "w_register", team |-> "-", position |-> Zero3,
            body_handle |-> InvalidHandle, msg |-> <<>>]
NewGame == [tick |-> 0, clients |-> 0, entities |-> <<>>, team_counts |-> <<>>]

\* a body in free fall: no wheel's ray hits
Airborne == [w \in WheelIds |-> NoHit]

\* the input message of a client
NetInputs == {<<2000, 0, 900>>}

InitNet ==
    /\ vehicle = <<>>
    /\ body = [h \in {"ground"} |-> GroundBody]
    /\ tick = TickIdle /\ arb = ArbIdle /\ tire = TireIdle /\ tstate = TStateIdle
    /\ session = [c \in Conns |-> NewTask]
    /\ lock = "free" /\ glock = "free"
    /\ sim = [pc |-> "waiting"]
    /\ game = NewGame

WaitsGame(c) == session[c].pc \in {"w_register", "w_allocate", "w_add", "w_attach", "w_cleanup"}
WaitsPhysics(c) == session[c].pc \in {"w_spawn", "w_input"}

\* the section a waiting task enters
Entered(pc) ==
    CASE pc = "w_register" -> "in_register" [] pc = "w_allocate" -> "in_allocate"
      [] pc = "w_add" -> "in_add" [] pc = "w_attach" -> "in_attach"
      [] pc = "w_cleanup" -> "in_cleanup" [] pc = "w_spawn" -> "in_spawn"
      [] pc = "w_input" -> "in_input"

\* state_clone.lock().await returns
AcquireGame(c) ==
    /\ WaitsGame(c) /\ can_lock(glock)
    /\ glock' = c
    /\ session' = [session EXCEPT ![c].pc = Entered(session[c].pc)]
    /\ UNCHANGED <<arb, tire, vehicle, body, tick, tstate, lock, sim, game>>

\* physics_clone.lock().await returns
AcquirePhysics(c) ==
    /\ WaitsPhysics(c) /\ can_lock(lock)
    /\ lock' = c
    /\ session' = [session EXCEPT ![c].pc = Entered(session[c].pc)]
    /\ UNCHANGED <<arb, tire, vehicle, body, tick, tstate, sim, game, glock>>

\* 1) register_client(tx)
RegisterClient(c) ==
    /\ session[c].pc = "in_register"
    /\ game' = [game EXCEPT !.clients = game.clients + 1]
    /\ glock' = drop_guard(glock)
    /\ session' = [session EXCEPT ![c].pc = "w_allocate"]
    /\ UNCHANGED <<arb, tire, vehicle, body, tick, tstate, lock, sim>>

\* 3) spawns.allocate_spawn(player_id)
AllocateSpawn(c) ==
    /\ session[c].pc = "in_allocate"
    /\ LET r == allocate_spawn(game.team_counts, c)
       IN  /\ game' = [game EXCEPT !.team_counts = r.team_counts]
           /\ session' = [session EXCEPT ![c].pc = "w_add", ![c].team = r.info.team,
                                         ![c].position = r.info.position]
    /\ glock' = drop_guard(glock)
    /\ UNCHANGED <<arb, tire, vehicle, body, tick, tstate, lock, sim>>

\* 4) add_entity(&player_id, Vehicle); apply_spawn_info(&spawn_info)
AddEntity(c) ==
    /\ session[c].pc = "in_add"
    /\ game' = [game EXCEPT !.entities =
                   apply_spawn_info(add_entity(game.entities, c),
                       [player_id |-> c, room_id |-> RoomId, team |-> session[c].team,
                        position |-> session[c].position])]
    /\ glock' = drop_guard(glock)
    /\ session' = [session EXCEPT ![c].pc = "w_spawn"]
    /\ UNCHANGED <<arb, tire, vehicle, body, tick, tstate, lock, sim>>

\* 5) spawn_vehicle_for_player(player_id, position); vehicles[&player_id].body
SpawnBody(c) ==
    /\ session[c].pc = "in_spawn"
    /\ vehicle' = Insert(vehicle, c, NewVehicle(c))
    /\ body' = Insert(body, c, NewChassis(session[c].position))
    /\ lock' = drop_guard(lock)
    /\ session' = [session EXCEPT ![c].pc = "w_attach", ![c].body_handle = vehicle'[c].body]
    /\ UNCHANGED <<arb, tire, tick, tstate, sim, game, glock>>

\* 6) attach_body(&player_id, body_handle); the welcome; the read loop starts
AttachBody(c) ==
    /\ session[c].pc = "in_attach"
    /\ game' = [game EXCEPT !.entities = attach_body(game.entities, c, session[c].body_handle)]
    /\ glock' = drop_guard(glock)
    /\ session' = [session EXCEPT ![c].pc = "reading"]
    /\ UNCHANGED <<arb, tire, vehicle, body, tick, tstate, lock, sim>>

\* 8) read.next() yields an input message
ReceiveInput(c) ==
    /\ session[c].pc = "reading"
    /\ \E m \in NetInputs : session' = [session EXCEPT ![c].pc = "w_input", ![c].msg = m]
    /\ UNCHANGED <<arb, tire, vehicle, body, tick, tstate, lock, sim, game, glock>>

\* 8) phys.apply_player_input(&player_id, ...)
ApplyInput(c) ==
    /\ session[c].pc = "in_input"
    /\ vehicle' = apply_player_input(vehicle, c, session[c].msg[1], session[c].msg[2],
                                     session[c].msg[3])
    /\ lock' = drop_guard(lock)
    /\ session' = [session EXCEPT ![c].pc = "reading", ![c].msg = <<>>]
    /\ UNCHANGED <<arb, tire, body, tick, tstate, sim, game, glock>>

\* 8) read.next() yields None or an error: the read loop ends
ConnectionLost(c) ==
    /\ session[c].pc = "reading"
    /\ session' = [session EXCEPT ![c].pc = "w_cleanup"]
    /\ UNCHANGED <<arb, tire, vehicle, body, tick, tstate, lock, sim, game, glock>>

\* 9) remove_entity(&player_id)
RemoveEntity(c) ==
    /\ session[c].pc = "in_cleanup"
    /\ game' = [game EXCEPT !.entities = remove_entity(game.entities, c)]
    /\ glock' = drop_guard(glock)
    /\ session' = [session EXCEPT ![c].pc = "closed"]
    /\ UNCHANGED <<arb, tire, vehicle, body, tick, tstate, lock, sim>>

\* the loop: interval.tick().await; physics.lock().await
LoopLockPhysics ==
    /\ sim.pc = "waiting" /\ can_lock(lock)
    /\ lock' = "sim"
    /\ sim' = [pc |-> "w_game"]
    /\ UNCHANGED <<arb, tire, vehicle, body, tick, tstate, session, game, glock>>

\* the loop: state.lock().await
LoopLockGame ==
    /\ sim.pc = "w_game" /\ can_lock(glock)
    /\ glock' = "sim"
    /\ sim' = [pc |-> "ticking"]
    /\ UNCHANGED <<arb, tire, vehicle, body, tick, tstate, session, lock, game>>

\* the worlds phys.step leaves when every chassis is in free fall and
\* pipeline.step leaves each of them creeping in range
Creeping == Body(Translation(-50, 9, 0), <<30, 40, 0>>, <<0, 50, 0>>)
loop_step(vehicles, bodies) ==
    {w \in step(vehicles, bodies, [p \in DOMAIN vehicles |-> Airborne]) :
        \A p \in DOMAIN vehicles : w.tick.integrated[p] = Creeping}

\* the loop body: the entity loop, phys.step, tick += 1, broadcast_snapshot
LoopTick ==
    /\ sim.pc = "ticking"
    /\ LET applied == loop_inputs(game.entities)
           driven  == [p \in DOMAIN vehicle |->
                          IF p \in applied
                          THEN apply_player_input(vehicle, p, 0, 0, 0)[p]
                          ELSE vehicle[p]]
       IN  \E world \in loop_step(driven, body) :
               /\ vehicle' = world.vehicle
               /\ body' = world.body
               /\ tick' = [pc |-> "ticked", applied |-> applied,
                           snapshot |-> broadcast_snapshot(game.clients, game.entities,
                                                           world.body)]
    /\ game' = [game EXCEPT !.tick = Min(game.tick + 1, MaxTick)]
    /\ sim' = [pc |-> "ticked"]
    /\ UNCHANGED <<arb, tire, tstate, session, lock, glock>>

\* the loop: the debug overlay is sent and cleared; both guards drop at the end
\* of the iteration
LoopUnlock ==
    /\ sim.pc = "ticked"
    /\ tick' = TickIdle
    /\ lock' = drop_guard(lock)
    /\ glock' = drop_guard(glock)
    /\ sim' = [pc |-> "waiting"]
    /\ UNCHANGED <<arb, tire, vehicle, body, tstate, session, game>>

TaskStep(c) ==
    \/ RegisterClient(c) \/ AllocateSpawn(c) \/ AddEntity(c) \/ SpawnBody(c)
    \/ AttachBody(c) \/ ApplyInput(c) \/ RemoveEntity(c)

NextNet ==
    \/ \E c \in Conns : AcquireGame(c)
    \/ \E c \in Conns : AcquirePhysics(c)
    \/ \E c \in Conns : RegisterClient(c)
    \/ \E c \in Conns : AllocateSpawn(c)
    \/ \E c \in Conns : AddEntity(c)
    \/ \E c \in Conns : SpawnBody(c)
    \/ \E c \in Conns : AttachBody(c)
    \/ \E c \in Conns : ReceiveInput(c)
    \/ \E c \in Conns : ApplyInput(c)
    \/ \E c \in Conns : ConnectionLost(c)
    \/ \E c \in Conns : RemoveEntity(c)
    \/ LoopLockPhysics
    \/ LoopLockGame
    \/ LoopTick
    \/ LoopUnlock

SpecNet == InitNet /\ [][NextNet]_vars

\* tokio's Mutex is fair (FIFO): a task that keeps asking for a lock that is
\* free again and again gets it; a task inside a section runs to its end; the
\* interval keeps firing.  Messages and disconnects are the client's choice.
FairSpecNet ==
    /\ SpecNet
    /\ SF_vars(LoopLockPhysics) /\ SF_vars(LoopLockGame)
    /\ WF_vars(LoopTick) /\ WF_vars(LoopUnlock)
    /\ \A c \in Conns :
          SF_vars(AcquireGame(c)) /\ SF_vars(AcquirePhysics(c)) /\ WF_vars(TaskStep(c))

----------------------------------------------------------------------------
(* Properties of the connection tasks and the loop (SpecNet, FairSpecNet) *)

\* the task or the loop is inside a lock section, waiting for nothing
InSection(h) ==
    IF h = "sim" THEN sim.pc \in {"ticking", "ticked"}
    ELSE h \in Conns /\ ~WaitsGame(h) /\ ~WaitsPhysics(h)

\* a connection task that waits for a lock holds none
NoHoldAndWait ==
    \A c \in Conns : (WaitsGame(c) \/ WaitsPhysics(c)) => (lock # c /\ glock # c)

\* the holder of a lock is inside its section, or is the loop waiting for the
\* game lock, which is free or held by a task inside its section
HolderRuns(holder) ==
    \/ holder = "free"
    \/ InSection(holder)
    \/ holder = "sim" /\ sim.pc = "w_game" /\ (glock = "free" \/ InSection(glock))
NoDeadlock == HolderRuns(lock) /\ HolderRuns(glock)

\* the loop keeps entering and completing its tick
TicksComplete == []<>(sim.pc = "ticking") /\ []<>(sim.pc = "waiting")

\* a task that waits for a lock or is inside a section gets to the read loop
\* or to its end
StepsComplete ==
    \A c \in Conns :
        (session[c].pc \notin {"reading", "closed"}) ~> (session[c].pc \in {"reading", "closed"})

\* C27: under every interleaving of the loop (physics lock, then game lock, both
\* held for the tick) with the connection tasks no deadlock is reachable: a
\* connection task never holds one of the two locks while it waits for the
\* other, every lock holder can run, and with a fair mutex every tick and every
\* connection step eventually completes.
C27_NoDeadlock == []NoHoldAndWait /\ []NoDeadlock /\ TicksComplete /\ StepsComplete

\* the loop holds the physics lock and waits for the game lock, which a task
\* holds, while another task waits for the physics lock
C27_Witness ==
    /\ sim.pc = "w_game" /\ lock = "sim"
    /\ glock \in Conns
    /\ \E c \in Conns : c # glock /\ WaitsPhysics(c)

\* C28: add_entity, spawn_vehicle_for_player and attach_body run in three
\* separate lock sections; a tick in between applies no input to, and includes
\* in no snapshot, an entity whose body handle is still invalid, and every
\* entity a snapshot includes has a body present in the physics world.
C28_UnattachedEntitySkipped ==
    tick.pc = "ticked" =>
        /\ \A e \in tick.applied : game.entities[e].body_handle # InvalidHandle
        /\ \A e \in tick.snapshot.players :
              /\ e \in DOMAIN game.entities
              /\ game.entities[e].body_handle # InvalidHandle
              /\ game.entities[e].body_handle \in DOMAIN body

\* a tick between spawn_vehicle_for_player and attach_body of one task: its
\* chassis is in the world, its entity is skipped, another entity is reported
C28_Witness ==
    /\ tick.pc = "ticked" /\ tick.snapshot.sent
    /\ tick.snapshot.players # {}
    /\ \E c \in Conns :
          /\ session[c].pc = "w_attach"
          /\ c \in DOMAIN body
          /\ c \in tick.snapshot.skipped

----------------------------------------------------------------------------
(* Team balance of the SpawnManager (SpecSpawn): three connections join and
   leave while the loop waits on its interval *)

SpawnConns == {"c1", "c2", "c3"}

InitSpawn ==
    /\ vehicle = <<>>
    /\ body = [h \in {"ground"} |-> GroundBody]
    /\ tick = TickIdle /\ arb = ArbIdle /\ tire = TireIdle /\ tstate = TStateIdle
    /\ session = [c \in SpawnConns |-> NewTask]
    /\ lock = "free" /\ glock = "free"
    /\ sim = [pc |-> "waiting"]
    /\ game = NewGame

NextSpawn ==
    \/ \E c \in SpawnConns : AcquireGame(c)
    \/ \E c \in SpawnConns : AcquirePhysics(c)
    \/ \E c \in SpawnConns : RegisterClient(c)
    \/ \E c \in SpawnConns : AllocateSpawn(c)
    \/ \E c \in SpawnConns : AddEntity(c)
    \/ \E c \in SpawnConns : SpawnBody(c)
    \/ \E c \in SpawnConns : AttachBody(c)
    \/ \E c \in SpawnConns : ConnectionLost(c)
    \/ \E c \in SpawnConns : RemoveEntity(c)

SpecSpawn == InitSpawn /\ [][NextSpawn]_vars

RedCount == GetOr0(game.team_counts, <<RoomId, "Red">>)
BlueCount == GetOr0(game.team_counts, <<RoomId, "Blue">>)

\* 0 <= red - blue <= 1
TeamsBalanced == RedCount - BlueCount \in {0, 1}

\* no step lowers a team count
CountsKept ==
    /\ GetOr0(game'.team_counts, <<RoomId, "Red">>) >= RedCount
    /\ GetOr0(game'.team_counts, <<RoomId, "Blue">>) >= BlueCount

\* an allocation goes to Red exactly when the counts were level
Alternates ==
    \A c \in DOMAIN session :
        (session[c].pc = "in_allocate" /\ session'[c].pc = "w_add") =>
            session'[c].team = IF RedCount = BlueCount THEN "Red" ELSE "Blue"

====
